---- MODULE Spec2Model ----
(***************************************************************************)
(* Model of the prediction-market ledger of                                *)
(* src/smart-contracts/assembly/contracts/game.ts (first artifact of the   *)
(* file, lines 1-2795): single pools, bets, multipools and betslips, the   *)
(* reentrancy gate and the pause flag, over one persistent key/value store.*)
(*                                                                         *)
(* Storage keys become variables: spool[id] is the record under            *)
(* 'spool:<id>', sbet[<<id, addr>>] the record under 'sbet:<id>:<addr>',   *)
(* and so on.  A failed assert aborts the whole operation with no write,   *)
(* so every assert of a handler is a conjunct of its action's guard.       *)
(*                                                                         *)
(* All amounts of the model stay far below 2^31, so the u64/u128           *)
(* arithmetic of the source never wraps here and u128.toU64() is the       *)
(* value itself.                                                           *)
(***************************************************************************)
EXTENDS Integers, Sequences, FiniteSets, TLC

\* ---------------------------------------------------------------- constants

ODDS_SCALE == 1000000
BASIS_POINTS == 10000
DEFAULT_HOUSE_EDGE_BPS == 500
DEFAULT_MIN_BET_SIZE == 1
STATUS_NONE == 0
STATUS_POISON == 1
STATUS_STUN == 2
STATUS_SHIELD == 4
STATUS_RAGE == 8
STATUS_BURN == 16
SKILL_NONE == 0
SKILL_POWER_STRIKE == 1
SKILL_HEAL == 2
SKILL_POISON_STRIKE == 3
SKILL_STUN_STRIKE == 4
SKILL_SHIELD_WALL == 5
SKILL_RAGE_MODE == 6
SKILL_CRITICAL_EYE == 7
SKILL_DODGE_MASTER == 8
SKILL_BURN_AURA == 9
SKILL_COMBO_BREAKER == 10
MAX_ENERGY == 100
ENERGY_PER_TURN == 20
\* the decision window opened by a wildcard, and the cap of its HP benefit
WildcardDecisionWindow == 10000
WildcardHpBenefit == 50
WildcardHpCap == 1000000

\* ------------------------------------------------------------------- bounds

MaxTime == 1
MaxBetsPlaced == 2
MaxLegs == 2
MaxParlayBets == 3
MaxPriorStreak == 5
MaxTurns == 4
MaxBattleHp == 150
MaxFinalizations == 2
MaxLevel == 2
MaxXp == 200
MaxCharacterHp == 105
MaxTreasury == 2
MaxRounds == 2
MaxDuelTurns == 7

\* ------------------------------------------------------------------- inputs

Deployer == "adm"
Oracle == "orc"
Token == "tok"
Callee == "self"
Bettors == {"a", "b"}
Addresses == {Deployer, Oracle, Token} \cup Bettors
Holders == Addresses \cup {Callee}
PoolIds == {"p1", "p2"}
MultipoolIds == {"m1"}
BetslipIds == {"s1"}
CloseTimes == {1}
OutcomeInputs == {0, 1, 2}
ParlayOutcomeInputs == {0, 1}
Amounts == {10, 1000}
ParlayAmounts == {30}
ParlayStakes == {500}
ParlayStakers == {"a"}
ParlayBettors == {"b"}
SettlerInputs == {Oracle}
InitialBalance == 1010
StreakBettors == {"a"}

\* the prop bets' inputs: a second asset contract beside Token
Alt == "alt"
PropTokens == {Token, Alt}
PropIds == {"q1", "q2"}
PropAmounts == {10}

\* the battle engine's inputs
Players == {"a", "b"}
CharacterIds == {"c1", "c2"}
EquipmentIds == {"e1"}
BattleIds == {"b1"}
ClassInputs == {1, 5}
SkillSlotInputs == {0, 1}
WildcardRolls == {5, 50}
WildcardTypeRolls == {0, 1}
DamageRolls == {8}
CritRolls == {0, 99}
DodgeRolls == {0, 99}

ADMIN_ROLE == "admin"
PAUSER_ROLE == "pauser"
SETTLER_ROLE == "settler"

VARIABLES
  now,              \* Context.timestamp()
  locked,           \* the key 'locked' is present
  paused,           \* the key 'paused' holds 'true'
  roles,            \* <<role, address>> pairs whose role key is present
  authSettlers,     \* addresses whose 'auth_settler:<addr>' key is present
  spool,            \* pool id -> SinglePool record, or NoPool
  sbet,             \* <<pool id, bettor>> -> SingleBet record, or NoBet
  streak,           \* 'streak:<addr>' counters
  treasuryBalance,  \* 'treasury_balance' counter
  totalBetsPlaced,  \* 'total_bets_placed' counter
  totalBetsClaimed, \* 'total_bets_claimed' counter
  singlePoolCount,  \* 'single_pool_count' counter
  multipoolCount,   \* 'multipool_count' counter
  mpool,            \* multipool id -> Multipool record, or NoMultipool
  betslip,          \* betslip id -> Betslip record, or NoBetslip
  tokenBal,         \* the asset contract's ledger: holder -> balance
  allowance,        \* the asset contract's allowance of each holder to Callee
  frame,            \* the claim suspended in an external token call, or NoFrame
  saved,            \* the store as it was when the suspended operation began
  paidBase,         \* history: pool id -> sum of base payouts transferred
  ledger,           \* history: sums of bonus transfers, treasury accruals
                    \* (per pool) and parlay payouts (per multipool)
  claimCount,       \* history: <<pool id, bettor>> -> accepted claims
  settledBy,        \* history: pool id -> caller of the accepted settlement
  slipClaimCount,   \* history: betslip id -> accepted claims
  character,        \* character id -> Character record, or NoCharacter
  equipment,        \* equipment id -> Equipment record, or NoEquipment
  battle,           \* battle id -> Battle record, or NoBattle
  characterCount,   \* 'character_count' counter
  battleCount,      \* 'battle_count' counter
  totalBattlesFinished, \* 'total_battles_finished' counter
  lastTurn,         \* history: the last accepted game_executeTurn call: its
                    \* battle, caller, side, outcome and turn number
  predictionGame,   \* the PredictionGame object of the round-based game
  prop,             \* prop id -> PropBet record, or NoProp
  propTicket,       \* <<prop id, bettor>> -> PropTicket record, or NoPropTicket
  altBal,           \* the ledger of the asset contract Alt: holder -> balance
  propLedger        \* history: per prop and asset the sums pulled in by
                    \* propbet_placeBet and paid by propbet_claimProp, and
                    \* per ticket the asset it was staked and paid in

storeVars == <<locked, paused, roles, authSettlers, spool, sbet, streak,
               treasuryBalance, totalBetsPlaced, totalBetsClaimed,
               singlePoolCount, multipoolCount, mpool, betslip>>
tokenVars == <<tokenBal, allowance>>
historyVars == <<paidBase, ledger, claimCount, settledBy, slipClaimCount>>
callVars == <<frame, saved>>
gameVars == <<character, equipment, battle, characterCount, battleCount,
              totalBattlesFinished, lastTurn>>
propVars == <<prop, propTicket, altBal, propLedger>>
vars == <<now, storeVars, tokenVars, historyVars, callVars, gameVars,
          predictionGame, propVars>>

\* ------------------------------------------------------------------ records

NoPool == [exists |-> FALSE]
NoBet == [exists |-> FALSE]
NoMultipool == [exists |-> FALSE]
NoBetslip == [exists |-> FALSE]
NoProp == [exists |-> FALSE]
NoPropTicket == [exists |-> FALSE]
NoFrame == [op |-> "none"]
NoCharacter == [exists |-> FALSE]
NoEquipment == [exists |-> FALSE]
NoBattle == [exists |-> FALSE]
NoTurn == [battleId |-> "none"]
\* new PredictionGame(): no round, no player, status inactive
NewPredictionGame ==
  [gameId |-> 0, players |-> {}, currentRound |-> [exists |-> FALSE],
   status |-> "inactive"]

NoSaved == <<>>

\* `x as i8` of an i32 argument
AsI8(x) == ((x + 128) % 256) - 128

\* new SinglePool() as filled in by prediction_createSinglePool
SinglePool(tokenAddr, closeTs) ==
  [exists |-> TRUE, token |-> tokenAddr, closeTs |-> closeTs,
   totalPool |-> 0, outcomeABets |-> 0, outcomeBBets |-> 0,
   outcomeAOddsFP |-> 0, outcomeBOddsFP |-> 0,
   houseEdgeBps |-> DEFAULT_HOUSE_EDGE_BPS,
   isClosed |-> FALSE, isSettled |-> FALSE, winningOutcome |-> -1,
   maxPoolSize |-> 0, minBetSize |-> DEFAULT_MIN_BET_SIZE, maxBetSize |-> 0]

SingleBet(bettor, poolId, amount, outcome) ==
  [exists |-> TRUE, bettor |-> bettor, poolId |-> poolId, amount |-> amount,
   outcome |-> outcome, isClaimed |-> FALSE]

\* ------------------------------------------------------------------ helpers

onlyRole(role, caller) == <<role, caller>> \in roles

whenNotPaused == ~paused

\* the assertion of nonReentrant(); the handlers set the key afterwards
nonReentrantUnchecked == locked \in BOOLEAN
nonReentrant == ~locked

isAuthorizedSettlerAnyone(addr) == addr \in Addresses
isAuthorizedSettler(addr) == addr \in authSettlers

\* While an operation is suspended in a call to the asset contract, the only
\* code that runs is the asset contract's, so only it can call back in.
CallAllowed(caller) == frame.op = "none" \/ caller = Token

HouseAmount(pool) == (pool.totalPool * pool.houseEdgeBps) \div BASIS_POINTS
PayoutPool(pool) == pool.totalPool - HouseAmount(pool)
WinnerTotal(pool) ==
  IF pool.winningOutcome = 0 THEN pool.outcomeABets ELSE pool.outcomeBBets

\* the two asserts that keep a pool open for bets
BettingOpenAfterDeadline(pool) == ~pool.isClosed
BettingOpen(pool) == ~pool.isClosed /\ now < pool.closeTs

\* "update pool totals" of placeSingleBet
AddStakeStrict(pool, outcome, amount) ==
  [pool EXCEPT !.totalPool = @ + amount,
               !.outcomeABets = IF outcome = 0 THEN @ + amount ELSE @,
               !.outcomeBBets = IF outcome = 1 THEN @ + amount ELSE @]
AddStake(pool, outcome, amount) ==
  [pool EXCEPT !.totalPool = @ + amount,
               !.outcomeABets = IF outcome = 0 THEN @ + amount ELSE @,
               !.outcomeBBets = IF outcome = 0 THEN @ ELSE @ + amount]

\* the odds snapshot of one outcome at close
SnapshotOddsDivideFirst(payoutPool, stake) == (payoutPool \div stake) * ODDS_SCALE
SnapshotOdds(payoutPool, stake) == (payoutPool * ODDS_SCALE) \div stake

Snapshot ==
  [locked |-> locked, paused |-> paused, roles |-> roles,
   authSettlers |-> authSettlers, spool |-> spool, sbet |-> sbet,
   streak |-> streak, treasuryBalance |-> treasuryBalance,
   totalBetsPlaced |-> totalBetsPlaced, totalBetsClaimed |-> totalBetsClaimed,
   singlePoolCount |-> singlePoolCount, multipoolCount |-> multipoolCount,
   mpool |-> mpool, betslip |-> betslip, tokenBal |-> tokenBal,
   allowance |-> allowance, paidBase |-> paidBase, ledger |-> ledger,
   claimCount |-> claimCount,
   settledBy |-> settledBy, slipClaimCount |-> slipClaimCount,
   character |-> character, equipment |-> equipment, battle |-> battle,
   characterCount |-> characterCount, battleCount |-> battleCount,
   totalBattlesFinished |-> totalBattlesFinished, lastTurn |-> lastTurn]

\* IERC20.transfer(to, amount) called by the contract
TokenTransfer(bal, to, amount) ==
  [bal EXCEPT ![Callee] = @ - amount, ![to] = @ + amount]

\* IERC20.transferFrom(from, Callee, amount)
TokenTransferFrom(bal, from, amount) ==
  [bal EXCEPT ![from] = @ - amount, ![Callee] = @ + amount]

\* --------------------------------------------------------------------- Init

InitStore ==
  /\ now = 0
  /\ locked = FALSE
  /\ paused = FALSE
  /\ authSettlers = {}
  /\ spool = [p \in PoolIds |-> NoPool]
  /\ sbet = [k \in PoolIds \X Addresses |-> NoBet]
  /\ treasuryBalance = 0
  /\ totalBetsPlaced = 0
  /\ totalBetsClaimed = 0
  /\ singlePoolCount = 0
  /\ multipoolCount = 0
  /\ mpool = [m \in MultipoolIds |-> NoMultipool]
  /\ betslip = [s \in BetslipIds |-> NoBetslip]
  /\ tokenBal = [h \in Holders |-> IF h \in Bettors THEN InitialBalance ELSE 0]
  /\ allowance = [h \in Holders |-> IF h \in Bettors THEN 2 * InitialBalance ELSE 0]
  /\ frame = NoFrame
  /\ saved = NoSaved
  /\ paidBase = [p \in PoolIds |-> 0]
  /\ ledger = [bonus |-> [p \in PoolIds |-> 0],
               house |-> [p \in PoolIds |-> 0],
               multi |-> [m \in MultipoolIds |-> 0]]
  /\ claimCount = [k \in PoolIds \X Addresses |-> 0]
  /\ settledBy = [p \in PoolIds |-> "none"]
  /\ slipClaimCount = [s \in BetslipIds |-> 0]
  /\ equipment = [e \in EquipmentIds |-> NoEquipment]
  /\ battle = [b \in BattleIds |-> NoBattle]
  /\ battleCount = 0
  /\ totalBattlesFinished = 0
  /\ lastTurn = NoTurn
  /\ predictionGame = NewPredictionGame
  /\ prop = [q \in PropIds |-> NoProp]
  /\ propTicket = [k \in PropIds \X Bettors |-> NoPropTicket]
  /\ altBal = [h \in Holders |-> IF h \in Bettors THEN InitialBalance ELSE 0]
  /\ propLedger = [staked |-> [q \in PropIds |-> [t \in PropTokens |-> 0]],
                   paid |-> [q \in PropIds |-> [t \in PropTokens |-> 0]],
                   stakedIn |-> [k \in PropIds \X Bettors |-> "none"],
                   paidIn |-> [k \in PropIds \X Bettors |-> "none"]]

\* the state after construction: no streak key is present
Init ==
  /\ InitStore
  /\ roles = {<<ADMIN_ROLE, Deployer>>}
  /\ streak = [a \in Addresses |-> 0]
  /\ character = [c \in CharacterIds |-> NoCharacter]
  /\ characterCount = 0

\* the store when the bettors come with win streaks earned on earlier pools
InitStreak ==
  /\ InitStore
  /\ roles = {<<ADMIN_ROLE, Deployer>>}
  /\ streak \in [Addresses -> 0..MaxPriorStreak]
  /\ \A a \in Addresses \ StreakBettors : streak[a] = 0
  /\ character = [c \in CharacterIds |-> NoCharacter]
  /\ characterCount = 0

\* ------------------------------------------------------------------ actions

\* The observed time advances between operations, never inside one.
Tick ==
  /\ frame.op = "none"
  /\ now < MaxTime
  /\ now' = now + 1
  /\ UNCHANGED <<storeVars, tokenVars, historyVars, callVars, gameVars,
                 predictionGame, propVars>>

prediction_setAuthorizedSettler(caller, addr) ==
  /\ CallAllowed(caller)
  /\ onlyRole(ADMIN_ROLE, caller)
  /\ authSettlers' = authSettlers \cup {addr}
  /\ UNCHANGED <<now, predictionGame, propVars, gameVars, locked, paused, roles, spool, sbet, streak,
                 treasuryBalance, totalBetsPlaced, totalBetsClaimed,
                 singlePoolCount, multipoolCount, mpool, betslip,
                 tokenVars, historyVars, callVars>>

prediction_createSinglePool(caller, poolId, tokenAddr, closeTs) ==
  /\ CallAllowed(caller)
  /\ whenNotPaused
  /\ nonReentrant
  /\ ~spool[poolId].exists
  /\ spool' = [spool EXCEPT ![poolId] = SinglePool(tokenAddr, closeTs)]
  /\ singlePoolCount' = singlePoolCount + 1
  /\ UNCHANGED <<now, predictionGame, propVars, gameVars, locked, paused, roles, authSettlers, sbet, streak,
                 treasuryBalance, totalBetsPlaced, totalBetsClaimed,
                 multipoolCount, mpool, betslip,
                 tokenVars, historyVars, callVars>>

prediction_placeSingleBet(caller, poolId, outcomeArg, amount) ==
  LET pool == spool[poolId]
      outcome == AsI8(outcomeArg)
      newTotal == pool.totalPool + amount
  IN
  /\ CallAllowed(caller)
  /\ whenNotPaused
  /\ nonReentrant
  /\ pool.exists
  /\ BettingOpen(pool)
  /\ amount >= pool.minBetSize
  /\ pool.maxBetSize > 0 => amount <= pool.maxBetSize
  /\ pool.maxPoolSize > 0 => newTotal <= pool.maxPoolSize
  /\ allowance[caller] >= amount
  /\ tokenBal[caller] >= amount
  /\ tokenBal' = TokenTransferFrom(tokenBal, caller, amount)
  /\ allowance' = [allowance EXCEPT ![caller] = @ - amount]
  /\ spool' = [spool EXCEPT ![poolId] = AddStake(pool, outcome, amount)]
  /\ sbet' = [sbet EXCEPT ![<<poolId, caller>>] =
                SingleBet(caller, poolId, amount, outcome)]
  /\ totalBetsPlaced' = totalBetsPlaced + 1
  /\ UNCHANGED <<now, predictionGame, propVars, gameVars, locked, paused, roles, authSettlers, streak,
                 treasuryBalance, totalBetsClaimed, singlePoolCount,
                 multipoolCount, mpool, betslip, historyVars, callVars>>

prediction_closeSinglePool(caller, poolId) ==
  LET pool == spool[poolId]
      payoutPool == PayoutPool(pool)
      oddsA == IF pool.totalPool > 0 /\ pool.outcomeABets > 0
               THEN SnapshotOdds(payoutPool, pool.outcomeABets)
               ELSE pool.outcomeAOddsFP
      oddsB == IF pool.totalPool > 0 /\ pool.outcomeBBets > 0
               THEN SnapshotOdds(payoutPool, pool.outcomeBBets)
               ELSE pool.outcomeBOddsFP
  IN
  /\ CallAllowed(caller)
  /\ whenNotPaused
  /\ nonReentrant
  /\ pool.exists
  /\ ~pool.isClosed
  /\ now >= pool.closeTs
  /\ spool' = [spool EXCEPT ![poolId] =
                 [pool EXCEPT !.isClosed = TRUE,
                              !.outcomeAOddsFP = oddsA,
                              !.outcomeBOddsFP = oddsB]]
  /\ UNCHANGED <<now, predictionGame, propVars, gameVars, locked, paused, roles, authSettlers, sbet, streak,
                 treasuryBalance, totalBetsPlaced, totalBetsClaimed,
                 singlePoolCount, multipoolCount, mpool, betslip,
                 tokenVars, historyVars, callVars>>

prediction_settleSinglePool(caller, poolId, outcomeArg) ==
  LET pool == spool[poolId]
      winningOutcome == AsI8(outcomeArg)
  IN
  /\ CallAllowed(caller)
  /\ whenNotPaused
  /\ nonReentrant
  /\ pool.exists
  /\ pool.isClosed
  /\ ~pool.isSettled
  /\ isAuthorizedSettler(caller)
  /\ spool' = [spool EXCEPT ![poolId] =
                 [pool EXCEPT !.isSettled = TRUE,
                              !.winningOutcome = winningOutcome]]
  /\ settledBy' = [settledBy EXCEPT ![poolId] = caller]
  /\ UNCHANGED <<now, predictionGame, propVars, gameVars, locked, paused, roles, authSettlers, sbet, streak,
                 treasuryBalance, totalBetsPlaced, totalBetsClaimed,
                 singlePoolCount, multipoolCount, mpool, betslip,
                 tokenVars, paidBase, ledger, claimCount, slipClaimCount,
                 callVars>>


\* The frame of a claim that is suspended inside IERC20.transfer.
ClaimFrame(op, stage, poolId, betslipId, bettor, payoutU64, newStreak, houseAmountU64) ==
  [op |-> op, stage |-> stage, poolId |-> poolId, betslipId |-> betslipId,
   bettor |-> bettor, payoutU64 |-> payoutU64, newStreak |-> newStreak,
   houseAmountU64 |-> houseAmountU64, streakBonus |-> 0]

\* streak bonus of a winning claim (0 below a streak of 2)
StreakBonusLinear(payoutU64, newStreak) ==
  IF newStreak >= 2 THEN (payoutU64 * ((newStreak - 1) * 5)) \div 100 ELSE 0
StreakBonus(payoutU64, newStreak) ==
  IF newStreak >= 2
  THEN (payoutU64 * (IF newStreak < 5 THEN (newStreak - 1) * 5 ELSE 25)) \div 100
  ELSE 0

\* `bet.isClaimed = true` of claimSingleBet
MarkClaimedForgotten(bet) == bet
MarkClaimed(bet) == [bet EXCEPT !.isClaimed = TRUE]

\* base payout of a winning bet
SinglePayoutRoundUp(pool, bet) ==
  (PayoutPool(pool) * bet.amount + WinnerTotal(pool) - 1) \div WinnerTotal(pool)
SinglePayoutNoEdge(pool, bet) == (pool.totalPool * bet.amount) \div WinnerTotal(pool)
SinglePayout(pool, bet) == (PayoutPool(pool) * bet.amount) \div WinnerTotal(pool)

\* prediction_claimSingleBet up to and including the call of
\* tokenContract.transfer(bettor, payoutU64); a losing claim runs to its return.
prediction_claimSingleBet(caller, poolId, bettor) ==
  LET pool == spool[poolId]
      bet == sbet[<<poolId, bettor>>]
      payoutU64 == SinglePayout(pool, bet)
      newStreak == streak[bettor] + 1
  IN
  /\ CallAllowed(caller)
  /\ whenNotPaused
  /\ nonReentrant
  /\ pool.exists
  /\ pool.isSettled
  /\ bet.exists
  /\ ~bet.isClaimed
  /\ sbet' = [sbet EXCEPT ![<<poolId, bettor>>] = MarkClaimed(bet)]
  /\ claimCount' = [claimCount EXCEPT ![<<poolId, bettor>>] = @ + 1]
  /\ IF bet.outcome # pool.winningOutcome
     THEN /\ totalBetsClaimed' = totalBetsClaimed + 1
          /\ streak' = [streak EXCEPT ![bettor] = 0]
          /\ UNCHANGED <<locked, tokenVars, paidBase, callVars>>
     ELSE /\ WinnerTotal(pool) > 0
          /\ tokenBal[Callee] >= payoutU64
          /\ streak' = [streak EXCEPT ![bettor] = newStreak]
          /\ locked' = TRUE
          /\ tokenBal' = TokenTransfer(tokenBal, bettor, payoutU64)
          /\ paidBase' = [paidBase EXCEPT ![poolId] = @ + payoutU64]
          /\ frame' = ClaimFrame("claimSingleBet", "payout", poolId, "none", bettor,
                                 payoutU64, newStreak, HouseAmount(pool))
          /\ saved' = Snapshot
          /\ UNCHANGED <<totalBetsClaimed, allowance>>
  /\ UNCHANGED <<now, predictionGame, propVars, gameVars, paused, roles, authSettlers, spool, treasuryBalance,
                 totalBetsPlaced, singlePoolCount, multipoolCount, mpool,
                 betslip, ledger, settledBy, slipClaimCount>>

\* the tail of prediction_claimSingleBet: treasury accrual and endNonReentrant()
ClaimSingleBetFinish ==
  /\ treasuryBalance' = IF frame.houseAmountU64 > 0
                        THEN treasuryBalance + frame.houseAmountU64
                        ELSE treasuryBalance
  /\ ledger' = [ledger EXCEPT !.house[frame.poolId] =
                   IF frame.houseAmountU64 > 0 THEN @ + frame.houseAmountU64
                   ELSE @]
  /\ locked' = FALSE
  /\ frame' = NoFrame
  /\ saved' = NoSaved

\* prediction_claimSingleBet from the return of the payout transfer: the
\* claimed counter, then either the call of the bonus transfer or the tail.
claimSingleBet_afterPayout ==
  LET streakBonus == StreakBonus(frame.payoutU64, frame.newStreak) IN
  /\ frame.op = "claimSingleBet"
  /\ frame.stage = "payout"
  /\ totalBetsClaimed' = totalBetsClaimed + 1
  /\ IF streakBonus > 0
     THEN /\ tokenBal[Callee] >= streakBonus
          /\ tokenBal' = TokenTransfer(tokenBal, frame.bettor, streakBonus)
          /\ frame' = [frame EXCEPT !.stage = "bonus", !.streakBonus = streakBonus]
          /\ ledger' = [ledger EXCEPT !.bonus[frame.poolId] = @ + streakBonus]
          /\ UNCHANGED <<locked, treasuryBalance, saved>>
     ELSE /\ ClaimSingleBetFinish
          /\ UNCHANGED tokenBal
  /\ UNCHANGED <<now, predictionGame, propVars, gameVars, paused, roles, authSettlers, spool, sbet, streak,
                 totalBetsPlaced, singlePoolCount, multipoolCount, mpool,
                 betslip, allowance, paidBase, claimCount, settledBy,
                 slipClaimCount>>

\* prediction_claimSingleBet from the return of the bonus transfer
claimSingleBet_afterBonus ==
  /\ frame.op = "claimSingleBet"
  /\ frame.stage = "bonus"
  /\ ClaimSingleBetFinish
  /\ UNCHANGED <<now, predictionGame, propVars, gameVars, paused, roles, authSettlers, spool, sbet, streak,
                 totalBetsPlaced, totalBetsClaimed, singlePoolCount,
                 multipoolCount, mpool, betslip, tokenVars, paidBase,
                 claimCount, settledBy, slipClaimCount>>

\* The external call of a suspended operation fails (the asset contract
\* rejects the transfer, or a call it made back into this contract aborted):
\* the whole operation aborts and none of its writes or transfers remain.
ExternalCallFails ==
  /\ frame.op # "none"
  /\ locked' = saved.locked
  /\ paused' = saved.paused
  /\ roles' = saved.roles
  /\ authSettlers' = saved.authSettlers
  /\ spool' = saved.spool
  /\ sbet' = saved.sbet
  /\ streak' = saved.streak
  /\ treasuryBalance' = saved.treasuryBalance
  /\ totalBetsPlaced' = saved.totalBetsPlaced
  /\ totalBetsClaimed' = saved.totalBetsClaimed
  /\ singlePoolCount' = saved.singlePoolCount
  /\ multipoolCount' = saved.multipoolCount
  /\ mpool' = saved.mpool
  /\ betslip' = saved.betslip
  /\ tokenBal' = saved.tokenBal
  /\ allowance' = saved.allowance
  /\ paidBase' = saved.paidBase
  /\ ledger' = saved.ledger
  /\ claimCount' = saved.claimCount
  /\ settledBy' = saved.settledBy
  /\ slipClaimCount' = saved.slipClaimCount
  /\ character' = saved.character
  /\ equipment' = saved.equipment
  /\ battle' = saved.battle
  /\ characterCount' = saved.characterCount
  /\ battleCount' = saved.battleCount
  /\ totalBattlesFinished' = saved.totalBattlesFinished
  /\ lastTurn' = saved.lastTurn
  /\ frame' = NoFrame
  /\ saved' = NoSaved
  /\ UNCHANGED <<now, predictionGame, propVars>>

\* --------------------------------------------------------- multipool market

\* floor(a * b / ODDS_SCALE), the u128 expression `a * b / ODDS_SCALE_U128`,
\* evaluated through base-1000 limbs so that no intermediate product leaves
\* the model checker's integer range.
MulDivScale(a, b) ==
  LET a1 == a \div 1000
      a0 == a % 1000
      b1 == b \div 1000
      b0 == b % 1000
  IN a1 * b1 + ((a1 * b0 + a0 * b1 + ((a0 * b0) \div 1000)) \div 1000)

\* new Multipool() as filled in by prediction_createMultipool
Multipool(tokenAddr) ==
  [exists |-> TRUE, token |-> tokenAddr, totalPool |-> 0, totalWeightFP |-> 0,
   totalWinnerWeightFP |-> 0, isFinalized |-> FALSE,
   houseEdgeBps |-> DEFAULT_HOUSE_EDGE_BPS]

\* the odds placeMultibet reads for one leg
LegOdds(sel) ==
  IF AsI8(sel.outcome) = 0 THEN spool[sel.poolId].outcomeAOddsFP
                           ELSE spool[sel.poolId].outcomeBOddsFP

\* the asserts of the selection loop of placeMultibet
LegsValid(sels) ==
  \A i \in 1..Len(sels) :
    /\ spool[sels[i].poolId].exists
    /\ spool[sels[i].poolId].isClosed
    /\ LegOdds(sels[i]) > 0

\* combinedOddsFP after the first n legs
RECURSIVE CombinedOddsSkipFirst(_, _)
CombinedOddsSkipFirst(sels, n) ==
  IF n <= 1 THEN ODDS_SCALE
  ELSE MulDivScale(CombinedOddsSkipFirst(sels, n - 1), LegOdds(sels[n]))
RECURSIVE CombinedOdds(_, _)
CombinedOdds(sels, n) ==
  IF n = 0 THEN ODDS_SCALE
  ELSE MulDivScale(CombinedOdds(sels, n - 1), LegOdds(sels[n]))

\* BetslipSelection records as stored in the betslip
StoredSelections(sels) ==
  [i \in 1..Len(sels) |->
     [poolId |-> sels[i].poolId, outcome |-> AsI8(sels[i].outcome),
      oddsFP |-> LegOdds(sels[i])]]

prediction_createMultipool(caller, multipoolId, tokenAddr) ==
  /\ CallAllowed(caller)
  /\ whenNotPaused
  /\ nonReentrant
  /\ ~mpool[multipoolId].exists
  /\ mpool' = [mpool EXCEPT ![multipoolId] = Multipool(tokenAddr)]
  /\ multipoolCount' = multipoolCount + 1
  /\ UNCHANGED <<now, predictionGame, propVars, gameVars, locked, paused, roles, authSettlers, spool, sbet, streak,
                 treasuryBalance, totalBetsPlaced, totalBetsClaimed,
                 singlePoolCount, betslip, tokenVars, historyVars, callVars>>

prediction_placeMultibet(caller, betslipId, multipoolId, amount, sels) ==
  LET mp == mpool[multipoolId]
      combinedOddsFP == CombinedOdds(sels, Len(sels))
      weightFP == MulDivScale(amount, combinedOddsFP)
  IN
  /\ CallAllowed(caller)
  /\ whenNotPaused
  /\ nonReentrant
  /\ LegsValid(sels)
  /\ mp.exists
  /\ allowance[caller] >= amount
  /\ tokenBal[caller] >= amount
  /\ tokenBal' = TokenTransferFrom(tokenBal, caller, amount)
  /\ allowance' = [allowance EXCEPT ![caller] = @ - amount]
  /\ betslip' = [betslip EXCEPT ![betslipId] =
       [exists |-> TRUE, bettor |-> caller, multipoolId |-> multipoolId,
        amount |-> amount, selections |-> StoredSelections(sels),
        combinedOddsFP |-> combinedOddsFP, weightFP |-> weightFP,
        isWinner |-> FALSE, isClaimed |-> FALSE, isAccounted |-> FALSE]]
  /\ mpool' = [mpool EXCEPT ![multipoolId] =
       [mp EXCEPT !.totalPool = @ + amount, !.totalWeightFP = @ + weightFP]]
  /\ totalBetsPlaced' = totalBetsPlaced + 1
  /\ UNCHANGED <<now, predictionGame, propVars, gameVars, locked, paused, roles, authSettlers, spool, sbet, streak,
                 treasuryBalance, totalBetsClaimed, singlePoolCount,
                 multipoolCount, historyVars, callVars>>

\* The selection loop of checkBetslipWinner from leg i on: "abort" when a leg
\* is reached whose pool is not settled, else whether every leg matched.  The
\* loop breaks at the first mismatch without looking at the later legs.
CheckSelectionsFirstOnly(sels, i) ==
  IF i > Len(sels) THEN "winner"
  ELSE IF ~spool[sels[i].poolId].exists \/ ~spool[sels[i].poolId].isSettled
       THEN "abort"
  ELSE IF spool[sels[i].poolId].winningOutcome # sels[i].outcome THEN "loser"
  ELSE "winner"
CheckSelectionsNoSettledAssert(sels, i) ==
  IF \E j \in i..Len(sels) :
       spool[sels[j].poolId].winningOutcome # sels[j].outcome
  THEN "loser"
  ELSE "winner"
RECURSIVE CheckSelections(_, _)
CheckSelections(sels, i) ==
  IF i > Len(sels) THEN "winner"
  ELSE IF ~spool[sels[i].poolId].exists \/ ~spool[sels[i].poolId].isSettled
       THEN "abort"
  ELSE IF spool[sels[i].poolId].winningOutcome # sels[i].outcome THEN "loser"
  ELSE CheckSelections(sels, i + 1)

prediction_checkBetslipWinner(caller, betslipId) ==
  LET slip == betslip[betslipId]
      verdict == CheckSelections(slip.selections, 1)
      mp == mpool[slip.multipoolId]
  IN
  /\ CallAllowed(caller)
  /\ whenNotPaused
  /\ nonReentrant
  /\ slip.exists
  /\ ~slip.isAccounted
  /\ verdict # "abort"
  /\ verdict = "winner" => mp.exists
  /\ betslip' = [betslip EXCEPT ![betslipId] =
       [slip EXCEPT !.isWinner = (verdict = "winner"), !.isAccounted = TRUE]]
  /\ mpool' = IF verdict = "winner"
              THEN [mpool EXCEPT ![slip.multipoolId].totalWinnerWeightFP =
                                   @ + slip.weightFP]
              ELSE mpool
  /\ UNCHANGED <<now, predictionGame, propVars, gameVars, locked, paused, roles, authSettlers, spool, sbet, streak,
                 treasuryBalance, totalBetsPlaced, totalBetsClaimed,
                 singlePoolCount, multipoolCount, tokenVars, historyVars,
                 callVars>>

prediction_finalizeMultipool(caller, multipoolId) ==
  /\ CallAllowed(caller)
  /\ whenNotPaused
  /\ nonReentrant
  /\ onlyRole(ADMIN_ROLE, caller)
  /\ mpool[multipoolId].exists
  /\ ~mpool[multipoolId].isFinalized
  /\ mpool' = [mpool EXCEPT ![multipoolId].isFinalized = TRUE]
  /\ UNCHANGED <<now, predictionGame, propVars, gameVars, locked, paused, roles, authSettlers, spool, sbet, streak,
                 treasuryBalance, totalBetsPlaced, totalBetsClaimed,
                 singlePoolCount, multipoolCount, betslip, tokenVars,
                 historyVars, callVars>>

\* payout of a winning betslip
MultibetPayout(mp, slip) ==
  ((mp.totalPool - ((mp.totalPool * mp.houseEdgeBps) \div BASIS_POINTS))
     * slip.weightFP) \div mp.totalWinnerWeightFP

\* prediction_claimMultibet up to and including the call of
\* token.transfer(betslip.bettor, payoutU64); a losing claim runs to its return.
prediction_claimMultibet(caller, betslipId) ==
  LET slip == betslip[betslipId]
      mp == mpool[slip.multipoolId]
      payoutU64 == MultibetPayout(mp, slip)
  IN
  /\ CallAllowed(caller)
  /\ whenNotPaused
  /\ nonReentrant
  /\ slip.exists
  /\ ~slip.isClaimed
  /\ slip.isAccounted
  /\ mp.exists
  /\ mp.isFinalized
  /\ betslip' = [betslip EXCEPT ![betslipId].isClaimed = TRUE]
  /\ slipClaimCount' = [slipClaimCount EXCEPT ![betslipId] = @ + 1]
  /\ IF ~slip.isWinner
     THEN /\ totalBetsClaimed' = totalBetsClaimed + 1
          /\ UNCHANGED <<locked, tokenVars, callVars, ledger>>
     ELSE /\ mp.totalWinnerWeightFP > 0
          /\ tokenBal[Callee] >= payoutU64
          /\ locked' = TRUE
          /\ tokenBal' = TokenTransfer(tokenBal, slip.bettor, payoutU64)
          /\ frame' = ClaimFrame("claimMultibet", "payout", "none", betslipId,
                                 slip.bettor, payoutU64, 0, 0)
          /\ ledger' = [ledger EXCEPT !.multi[slip.multipoolId] = @ + payoutU64]
          /\ saved' = Snapshot
          /\ UNCHANGED <<totalBetsClaimed, allowance>>
  /\ UNCHANGED <<now, predictionGame, propVars, gameVars, paused, roles, authSettlers, spool, sbet, streak,
                 treasuryBalance, totalBetsPlaced, singlePoolCount,
                 multipoolCount, mpool, paidBase, claimCount, settledBy>>

\* prediction_claimMultibet from the return of the transfer
claimMultibet_afterPayout ==
  /\ frame.op = "claimMultibet"
  /\ frame.stage = "payout"
  /\ totalBetsClaimed' = totalBetsClaimed + 1
  /\ locked' = FALSE
  /\ frame' = NoFrame
  /\ saved' = NoSaved
  /\ UNCHANGED <<now, predictionGame, propVars, gameVars, paused, roles, authSettlers, spool, sbet, streak,
                 treasuryBalance, totalBetsPlaced, singlePoolCount,
                 multipoolCount, mpool, betslip, tokenVars, historyVars>>

\* ------------------------------------------------------------ battle engine

\* new Character() as game_createCharacter fills it for a class
NewCharacter(owner, classU8, maxHp, damageMin, damageMax, crit, dodge) ==
  [exists |-> TRUE, owner |-> owner, characterClass |-> classU8,
   level |-> 1, xp |-> 0, maxHp |-> maxHp, currentHp |-> maxHp,
   baseDamageMin |-> damageMin, baseDamageMax |-> damageMax,
   critChance |-> crit, dodgeChance |-> dodge, defense |-> 0,
   totalWins |-> 0, totalLosses |-> 0,
   weaponId |-> "", armorId |-> "", accessoryId |-> "",
   skill1 |-> SKILL_NONE, skill2 |-> SKILL_NONE, skill3 |-> SKILL_NONE,
   learnedSkills |-> {}, currentEnergy |-> MAX_ENERGY]

\* the base stats of the five classes
ClassStats(owner, classU8) ==
  CASE classU8 = 0 -> NewCharacter(owner, 0, 120, 8, 15, 15, 0)
    [] classU8 = 1 -> NewCharacter(owner, 1, 90, 12, 20, 35, 20)
    [] classU8 = 2 -> NewCharacter(owner, 2, 80, 10, 18, 20, 0)
    [] classU8 = 3 -> NewCharacter(owner, 3, 150, 6, 12, 10, 0)
    [] classU8 = 4 -> NewCharacter(owner, 4, 100, 9, 16, 25, 15)

\* A mage that game_grantXP has taken through four level-ups (200, 400, 600
\* and 800 XP: +5 max HP, +1 and +2 damage each) and that has learned
\* SKILL_STUN_STRIKE (level 5 is required) and equipped it in slot 1.
Veteran(owner) ==
  [ClassStats(owner, 2) EXCEPT !.level = 5, !.maxHp = 100, !.currentHp = 100,
                               !.baseDamageMin = 14, !.baseDamageMax = 26,
                               !.learnedSkills = {SKILL_STUN_STRIKE},
                               !.skill1 = SKILL_STUN_STRIKE]

\* The store when characters already exist: player b's veteran, and either
\* player a's veteran or no character of player a yet.
Rosters ==
  {r \in [CharacterIds -> {NoCharacter} \cup {Veteran(p) : p \in Players}] :
     /\ r["c1"].exists => r["c1"].owner = "a"
     /\ r["c2"].exists /\ r["c2"].owner = "b"}

InitBattle ==
  /\ InitStore
  /\ roles = {<<ADMIN_ROLE, Deployer>>}
  /\ streak = [a \in Addresses |-> 0]
  /\ character \in Rosters
  /\ characterCount = Cardinality({c \in CharacterIds : character[c].exists})

\* new Battle() as game_createBattle fills it
NewBattle(char1Id, char2Id, c1, c2) ==
  [exists |-> TRUE, player1Char |-> char1Id, player2Char |-> char2Id,
   player1Owner |-> c1.owner, player2Owner |-> c2.owner, createdAt |-> now,
   turnNumber |-> 0, currentTurn |-> 1, isFinished |-> FALSE, winner |-> 0,
   player1Hp |-> c1.maxHp, player2Hp |-> c2.maxHp,
   wildcardActive |-> FALSE, wildcardType |-> 0,
   wildcardDecisionDeadline |-> 0,
   wildcardPlayer1Decision |-> -1, wildcardPlayer2Decision |-> -1,
   player1StatusEffects |-> STATUS_NONE, player2StatusEffects |-> STATUS_NONE,
   player1StatusDuration |-> 0, player2StatusDuration |-> 0,
   player1ComboCount |-> 0, player2ComboCount |-> 0,
   player1Skill1Cooldown |-> 0, player1Skill2Cooldown |-> 0,
   player1Skill3Cooldown |-> 0, player2Skill1Cooldown |-> 0,
   player2Skill2Cooldown |-> 0, player2Skill3Cooldown |-> 0]

\* the fields of a Battle that belong to side 1 or side 2
SideField(what, side) ==
  CASE what = "Hp" -> (IF side = 1 THEN "player1Hp" ELSE "player2Hp")
    [] what = "Status" ->
         (IF side = 1 THEN "player1StatusEffects" ELSE "player2StatusEffects")
    [] what = "Duration" ->
         (IF side = 1 THEN "player1StatusDuration" ELSE "player2StatusDuration")
    [] what = "Combo" ->
         (IF side = 1 THEN "player1ComboCount" ELSE "player2ComboCount")
    [] what = "Decision" ->
         (IF side = 1 THEN "wildcardPlayer1Decision" ELSE "wildcardPlayer2Decision")
    [] what = "Owner" -> (IF side = 1 THEN "player1Owner" ELSE "player2Owner")
CooldownField(side, slot) ==
  IF side = 1
    THEN (IF slot = 1 THEN "player1Skill1Cooldown"
          ELSE IF slot = 2 THEN "player1Skill2Cooldown"
          ELSE "player1Skill3Cooldown")
    ELSE (IF slot = 1 THEN "player2Skill1Cooldown"
          ELSE IF slot = 2 THEN "player2Skill2Cooldown"
          ELSE "player2Skill3Cooldown")
Foe(side) == 3 - side

U16(x) == x % 65536

\* effects & flag, and effects |= flag, on the status bitmask
HasStatus(effects, flag) == (effects \div flag) % 2 = 1
WithStatus(effects, flag) == IF HasStatus(effects, flag) THEN effects ELSE effects + flag

getSkillCooldown(skillId) ==
  CASE skillId = SKILL_POWER_STRIKE -> 3
    [] skillId = SKILL_HEAL -> 4
    [] skillId = SKILL_POISON_STRIKE -> 2
    [] skillId = SKILL_STUN_STRIKE -> 5
    [] skillId = SKILL_SHIELD_WALL -> 3
    [] skillId = SKILL_RAGE_MODE -> 4
    [] skillId = SKILL_CRITICAL_EYE -> 6
    [] skillId = SKILL_DODGE_MASTER -> 5
    [] skillId = SKILL_BURN_AURA -> 3
    [] skillId = SKILL_COMBO_BREAKER -> 4
    [] OTHER -> 0

getSkillEnergyCost(skillId) ==
  CASE skillId = SKILL_POWER_STRIKE -> 30
    [] skillId = SKILL_HEAL -> 40
    [] skillId = SKILL_POISON_STRIKE -> 25
    [] skillId = SKILL_STUN_STRIKE -> 50
    [] skillId = SKILL_SHIELD_WALL -> 30
    [] skillId = SKILL_RAGE_MODE -> 40
    [] skillId = SKILL_CRITICAL_EYE -> 60
    [] skillId = SKILL_DODGE_MASTER -> 50
    [] skillId = SKILL_BURN_AURA -> 35
    [] skillId = SKILL_COMBO_BREAKER -> 45
    [] OTHER -> 0

\* a stat bonus of an equipped item: the slot holds an id and the item exists
EquipmentBonus(itemId, stat) ==
  IF itemId # "" /\ itemId \in EquipmentIds /\ equipment[itemId].exists
    THEN equipment[itemId][stat]
    ELSE 0

\* the side a game_executeTurn or game_decideWildcard call acts for
SideOfNamedCharacter(b, charId) ==
  IF charId = b.player1Char THEN 1 ELSE IF charId = b.player2Char THEN 2 ELSE 0
SideOf(b, charId) == IF charId = b.player1Char THEN 1 ELSE 2

\* 'not your turn'
IsTurnOfEither(b, side) == b.currentTurn \in {1, 2}
IsTurnOf(b, side) == b.currentTurn = side

\* the chance of a wildcard, in percent
WildcardChance(side, attackerCharId) ==
  IF side = 1 /\ attackerCharId = "Trickster" THEN 25 ELSE 10

\* the wildcard check of game_executeTurn
WildcardTriggersWhileActive(b, roll, chance) == roll < chance
WildcardTriggers(b, roll, chance) == roll < chance /\ ~b.wildcardActive

\* the skill the attacker gets to use from a slot, or SKILL_NONE
SkillUsed(b, side, attacker, skillSlot) ==
  LET equippedSkill == IF skillSlot = 1 THEN attacker.skill1
                       ELSE IF skillSlot = 2 THEN attacker.skill2
                       ELSE attacker.skill3
  IN IF /\ skillSlot >= 1
        /\ skillSlot <= 3
        /\ equippedSkill # SKILL_NONE
        /\ b[CooldownField(side, skillSlot)] = 0
        /\ attacker.currentEnergy >= getSkillEnergyCost(equippedSkill)
       THEN equippedSkill
       ELSE SKILL_NONE

\* the attacker after paying for the skill (and healing, for SKILL_HEAL)
AttackerAfterSkillUncapped(attacker, skill) ==
  LET healAmount == (attacker.maxHp * 30) \div 100
  IN IF skill = SKILL_NONE THEN attacker
     ELSE [attacker EXCEPT
             !.currentEnergy = @ - getSkillEnergyCost(skill),
             !.currentHp = IF skill = SKILL_HEAL THEN @ + healAmount ELSE @]
AttackerAfterSkill(attacker, skill) ==
  LET healAmount == (attacker.maxHp * 30) \div 100
  IN IF skill = SKILL_NONE THEN attacker
     ELSE [attacker EXCEPT
             !.currentEnergy = @ - getSkillEnergyCost(skill),
             !.currentHp = IF skill = SKILL_HEAL
                             THEN (IF @ + healAmount > attacker.maxHp
                                     THEN attacker.maxHp ELSE @ + healAmount)
                             ELSE @]

\* the battle after the skill's effects and its cooldown are set
ApplyStatus(b, side, flag, duration) ==
  [b EXCEPT ![SideField("Status", side)] = WithStatus(@, flag),
            ![SideField("Duration", side)] = duration]

BattleAfterSkill(b, side, skill, skillSlot, attacker) ==
  LET effect ==
        CASE skill = SKILL_HEAL -> [b EXCEPT ![SideField("Hp", side)] = attacker.currentHp]
          [] skill = SKILL_POISON_STRIKE -> ApplyStatus(b, Foe(side), STATUS_POISON, 3)
          [] skill = SKILL_STUN_STRIKE -> ApplyStatus(b, Foe(side), STATUS_STUN, 1)
          [] skill = SKILL_SHIELD_WALL -> ApplyStatus(b, side, STATUS_SHIELD, 2)
          [] skill = SKILL_RAGE_MODE -> ApplyStatus(b, side, STATUS_RAGE, 2)
          [] skill = SKILL_DODGE_MASTER -> ApplyStatus(b, side, STATUS_SHIELD, 2)
          [] skill = SKILL_BURN_AURA -> ApplyStatus(b, Foe(side), STATUS_BURN, 3)
          [] skill = SKILL_COMBO_BREAKER -> [b EXCEPT ![SideField("Combo", Foe(side))] = 0]
          [] OTHER -> b
  IN IF skill = SKILL_NONE THEN b
     ELSE [effect EXCEPT ![CooldownField(side, skillSlot)] = getSkillCooldown(skill)]

skillDamageMultiplier(skill) ==
  IF skill = SKILL_POWER_STRIKE THEN 150
  ELSE IF skill = SKILL_COMBO_BREAKER THEN 120
  ELSE 100

\* energy regeneration of one character
RegenerateEnergy(c) ==
  IF c.currentEnergy < MAX_ENERGY
    THEN [c EXCEPT !.currentEnergy = IF @ + ENERGY_PER_TURN > MAX_ENERGY
                                       THEN MAX_ENERGY ELSE @ + ENERGY_PER_TURN]
    ELSE c

\* a status duration runs down, and the status is cleared when it reaches 0
DecrementDuration(b, side) ==
  IF b[SideField("Duration", side)] > 0
    THEN [b EXCEPT ![SideField("Duration", side)] = @ - 1,
                   ![SideField("Status", side)] =
                       IF b[SideField("Duration", side)] - 1 = 0 THEN STATUS_NONE ELSE @]
    ELSE b

\* the end of a turn: the turn number advances and the turn passes over
AdvanceTurn(b) ==
  [b EXCEPT !.turnNumber = @ + 1,
            !.currentTurn = IF @ = 1 THEN 2 ELSE 1]

\* the damage the attacker deals, and whether the defender dodged
Damage(b, side, attacker, defender, skill, rnd) ==
  LET attackerDamageMinBonus == U16(EquipmentBonus(attacker.weaponId, "damageMinBonus"))
      attackerDamageMaxBonus == U16(EquipmentBonus(attacker.weaponId, "damageMaxBonus"))
      attackerCritBonus ==
        U16(EquipmentBonus(attacker.weaponId, "critBonus")
            + EquipmentBonus(attacker.accessoryId, "critBonus"))
      defenderDodgeBonus ==
        U16(EquipmentBonus(defender.armorId, "dodgeBonus")
            + EquipmentBonus(defender.accessoryId, "dodgeBonus"))
      skillForceCrit == skill = SKILL_CRITICAL_EYE
      skillDodgeBonus == IF skill = SKILL_DODGE_MASTER THEN 50 ELSE 0
      totalDamageMin == U16(attacker.baseDamageMin + attackerDamageMinBonus)
      totalDamageMax == U16(attacker.baseDamageMax + attackerDamageMaxBonus)
      dmgRange == IF totalDamageMax > totalDamageMin
                    THEN totalDamageMax - totalDamageMin ELSE 0
      rollDamage == rnd.damage % (dmgRange + 1)
      leveled == U16(U16(totalDamageMin + rollDamage) + U16((attacker.level - 1) * 2))
      raged == IF HasStatus(b[SideField("Status", side)], STATUS_RAGE)
                 THEN U16(leveled + leveled \div 2) ELSE leveled
      baseDamage == IF skillDamageMultiplier(skill) # 100
                      THEN U16((raged * skillDamageMultiplier(skill)) \div 100)
                      ELSE raged
      totalCritChance == U16(attacker.critChance + attackerCritBonus)
      critRoll == rnd.crit % 100
      crit == IF skillForceCrit \/ critRoll < totalCritChance
                THEN baseDamage * 2 ELSE baseDamage
      combo == IF b[SideField("Combo", side)] >= 3 THEN crit + crit \div 5 ELSE crit
      totalDodgeChance == U16(U16(defender.dodgeChance + defenderDodgeBonus) + skillDodgeBonus)
      dodged == rnd.dodge % 100 < totalDodgeChance
      defended == IF dodged THEN 0
                  ELSE IF combo > defender.defense THEN combo - defender.defense
                  ELSE 0
      shielded == IF HasStatus(b[SideField("Status", Foe(side))], STATUS_SHIELD) /\ defended > 0
                    THEN defended - (defended * 30) \div 100 ELSE defended
  IN [damage |-> shielded, dodged |-> dodged]

\* HP lost, never below 0
LoseHp(b, side, amount) ==
  [b EXCEPT ![SideField("Hp", side)] = IF @ > amount THEN @ - amount ELSE 0]

\* the hit and the combo counters
ApplyDamage(b, side, hit) ==
  LET struck == LoseHp(b, Foe(side), hit.damage)
  IN IF hit.damage > 0 /\ ~hit.dodged
       THEN [struck EXCEPT ![SideField("Combo", side)] = IF @ < 255 THEN @ + 1 ELSE 255,
                           ![SideField("Combo", Foe(side))] = 0]
       ELSE [struck EXCEPT ![SideField("Combo", side)] = 0]

\* poison and burn on both sides, by the statuses read before any of them
ApplyDots(b, c1, c2) ==
  LET p1Status == b.player1StatusEffects
      p2Status == b.player2StatusEffects
      b1 == IF HasStatus(p1Status, STATUS_POISON)
              THEN LoseHp(b, 1, c1.maxHp \div 20) ELSE b
      b2 == IF HasStatus(p1Status, STATUS_BURN)
              THEN LoseHp(b1, 1, (c1.maxHp * 8) \div 100) ELSE b1
      b3 == IF HasStatus(p2Status, STATUS_POISON)
              THEN LoseHp(b2, 2, c2.maxHp \div 20) ELSE b2
  IN IF HasStatus(p2Status, STATUS_BURN)
       THEN LoseHp(b3, 2, (c2.maxHp * 8) \div 100) ELSE b3

DecrementCooldowns(b) ==
  LET dec(x) == IF x > 0 THEN x - 1 ELSE x
  IN [b EXCEPT !.player1Skill1Cooldown = dec(@), !.player1Skill2Cooldown = dec(@),
               !.player1Skill3Cooldown = dec(@), !.player2Skill1Cooldown = dec(@),
               !.player2Skill2Cooldown = dec(@), !.player2Skill3Cooldown = dec(@)]

\* 'check finish'
CheckFinishPlayerOneOnly(b) ==
  IF b.player1Hp = 0
    THEN [b EXCEPT !.isFinished = TRUE, !.winner = 2]
    ELSE b
CheckFinish(b) ==
  IF b.player1Hp = 0 \/ b.player2Hp = 0
    THEN [b EXCEPT !.isFinished = TRUE,
                   !.winner = IF b.player1Hp > 0 THEN 1 ELSE 2]
    ELSE b

game_createCharacter(caller, id, classU8) ==
  /\ CallAllowed(caller)
  /\ whenNotPaused
  /\ nonReentrant
  /\ ~character[id].exists
  /\ classU8 \in 0..4
  /\ character' = [character EXCEPT ![id] = ClassStats(caller, classU8)]
  /\ characterCount' = characterCount + 1
  /\ UNCHANGED <<now, predictionGame, propVars, storeVars, tokenVars, historyVars, callVars, equipment,
                 battle, battleCount, totalBattlesFinished, lastTurn>>

game_createBattle(caller, battleId, char1Id, char2Id) ==
  /\ CallAllowed(caller)
  /\ whenNotPaused
  /\ nonReentrant
  /\ ~battle[battleId].exists
  /\ character[char1Id].exists /\ character[char2Id].exists
  /\ caller = character[char1Id].owner
  /\ battle' = [battle EXCEPT ![battleId] =
                  NewBattle(char1Id, char2Id, character[char1Id], character[char2Id])]
  /\ battleCount' = battleCount + 1
  /\ UNCHANGED <<now, predictionGame, propVars, storeVars, tokenVars, historyVars, callVars, character,
                 equipment, characterCount, totalBattlesFinished, lastTurn>>

\* The three random draws of a resolved turn. simple_random is a xorshift of
\* the turn number and the timestamp: any value may come out of it.
TurnRolls == [damage : DamageRolls, crit : CritRolls, dodge : DodgeRolls]

\* the assertions of game_executeTurn: the calls it accepts
TurnAccepted(caller, battleId, attackerCharId) ==
  /\ CallAllowed(caller)
  /\ whenNotPaused
  /\ nonReentrant
  /\ battle[battleId].exists
  /\ ~battle[battleId].isFinished
  /\ caller = battle[battleId][SideField("Owner",
                                         SideOf(battle[battleId], attackerCharId))]
  /\ IsTurnOf(battle[battleId], SideOf(battle[battleId], attackerCharId))

game_executeTurn(caller, battleId, attackerCharId, skillSlot, roll, typeRoll, rnd) ==
  /\ TurnAccepted(caller, battleId, attackerCharId)
  /\ LET b == battle[battleId]
         side == SideOf(b, attackerCharId)
         c1 == character[b.player1Char]
         c2 == character[b.player2Char]
         attacker == IF side = 1 THEN c1 ELSE c2
         defender == IF side = 1 THEN c2 ELSE c1
         skill == SkillUsed(b, side, attacker, skillSlot)
         paid == AttackerAfterSkill(attacker, skill)
         afterSkill == BattleAfterSkill(b, side, skill, skillSlot, paid)
         skillSaved == IF skill = SKILL_NONE THEN character
                       ELSE [character EXCEPT
                               ![IF side = 1 THEN b.player1Char ELSE b.player2Char] = paid]
         c1r == RegenerateEnergy(IF side = 1 THEN paid ELSE c1)
         c2r == RegenerateEnergy(IF side = 1 THEN c2 ELSE paid)
         hit == Damage(afterSkill, side, paid, defender, skill, rnd)
         resolved == CheckFinish(DecrementCooldowns(AdvanceTurn(
                       DecrementDuration(DecrementDuration(
                         ApplyDots(ApplyDamage(afterSkill, side, hit), c1r, c2r),
                         1), 2))))
     IN IF WildcardTriggers(b, roll % 100, WildcardChance(side, attackerCharId))
          THEN /\ battle' = [battle EXCEPT ![battleId] =
                    [b EXCEPT !.wildcardActive = TRUE,
                              !.wildcardType = typeRoll % 4,
                              !.wildcardDecisionDeadline = now + WildcardDecisionWindow,
                              !.wildcardPlayer1Decision = -1,
                              !.wildcardPlayer2Decision = -1]]
               /\ lastTurn' = [battleId |-> battleId, caller |-> caller,
                               side |-> side, outcome |-> "wildcard",
                               turnNumber |-> b.turnNumber]
               /\ UNCHANGED character
          ELSE IF HasStatus(afterSkill[SideField("Status", side)], STATUS_STUN)
            THEN /\ battle' = [battle EXCEPT ![battleId] =
                      AdvanceTurn(DecrementDuration(afterSkill, side))]
                 /\ character' = skillSaved
                 /\ lastTurn' = [battleId |-> battleId, caller |-> caller,
                                 side |-> side, outcome |-> "stunned",
                                 turnNumber |-> b.turnNumber]
            ELSE /\ battle' = [battle EXCEPT ![battleId] = resolved]
                 /\ character' = [[skillSaved EXCEPT ![b.player1Char] = c1r]
                                    EXCEPT ![b.player2Char] = c2r]
                 /\ lastTurn' = [battleId |-> battleId, caller |-> caller,
                                 side |-> side, outcome |-> "resolved",
                                 turnNumber |-> b.turnNumber]
  /\ UNCHANGED <<now, predictionGame, propVars, storeVars, tokenVars, historyVars, callVars, equipment,
                 characterCount, battleCount, totalBattlesFinished>>

\* 'if both decided resolve': the benefit when both accepted a wildcard of
\* type 0, then the reset of the sub-state
ResolveWildcardEitherAccepts(decided) ==
  LET benefit(hp) == IF hp + WildcardHpBenefit < WildcardHpCap
                       THEN hp + WildcardHpBenefit ELSE WildcardHpCap
      rewarded ==
        IF /\ (decided.wildcardPlayer1Decision = 1 \/ decided.wildcardPlayer2Decision = 1)
           /\ decided.wildcardType = 0
          THEN [decided EXCEPT !.player1Hp = benefit(@), !.player2Hp = benefit(@)]
          ELSE decided
  IN IF /\ decided.wildcardPlayer1Decision # -1
        /\ decided.wildcardPlayer2Decision # -1
       THEN [rewarded EXCEPT !.wildcardActive = FALSE,
                             !.wildcardPlayer1Decision = -1,
                             !.wildcardPlayer2Decision = -1]
       ELSE decided
ResolveWildcard(decided) ==
  LET benefit(hp) == IF hp + WildcardHpBenefit < WildcardHpCap
                       THEN hp + WildcardHpBenefit ELSE WildcardHpCap
      rewarded ==
        IF /\ decided.wildcardPlayer1Decision = 1
           /\ decided.wildcardPlayer2Decision = 1
           /\ decided.wildcardType = 0
          THEN [decided EXCEPT !.player1Hp = benefit(@), !.player2Hp = benefit(@)]
          ELSE decided
  IN IF /\ decided.wildcardPlayer1Decision # -1
        /\ decided.wildcardPlayer2Decision # -1
       THEN [rewarded EXCEPT !.wildcardActive = FALSE,
                             !.wildcardPlayer1Decision = -1,
                             !.wildcardPlayer2Decision = -1]
       ELSE decided

game_decideWildcard(caller, battleId, accept, playerCharId) ==
  /\ CallAllowed(caller)
  /\ whenNotPaused
  /\ nonReentrant
  /\ battle[battleId].exists
  /\ battle[battleId].wildcardActive
  /\ now <= battle[battleId].wildcardDecisionDeadline
  /\ LET b == battle[battleId]
         side == SideOf(b, playerCharId)
         decided == [b EXCEPT ![SideField("Decision", side)] = IF accept THEN 1 ELSE 0]
         resolved == ResolveWildcard(decided)
     IN /\ caller = b[SideField("Owner", side)]
        /\ resolved.player1Hp <= MaxBattleHp
        /\ resolved.player2Hp <= MaxBattleHp
        /\ battle' = [battle EXCEPT ![battleId] = resolved]
  /\ UNCHANGED <<now, predictionGame, propVars, storeVars, tokenVars, historyVars, callVars, character,
                 equipment, characterCount, battleCount, totalBattlesFinished,
                 lastTurn>>

game_finalizeBattle(caller, battleId) ==
  /\ CallAllowed(caller)
  /\ whenNotPaused
  /\ nonReentrant
  /\ battle[battleId].exists
  /\ battle[battleId].isFinished
  /\ battle[battleId].winner # 0
  /\ totalBattlesFinished < MaxFinalizations
  /\ LET b == battle[battleId]
         c1 == character[b.player1Char]
         c2 == character[b.player2Char]
         c1f == IF b.winner = 1
                  THEN [c1 EXCEPT !.totalWins = @ + 1, !.currentHp = c1.maxHp]
                  ELSE [c1 EXCEPT !.totalLosses = @ + 1, !.currentHp = c1.maxHp]
         c2f == IF b.winner = 1
                  THEN [c2 EXCEPT !.totalLosses = @ + 1, !.currentHp = c2.maxHp]
                  ELSE [c2 EXCEPT !.totalWins = @ + 1, !.currentHp = c2.maxHp]
     IN character' = [[character EXCEPT ![b.player1Char] = c1f]
                        EXCEPT ![b.player2Char] = c2f]
  /\ totalBattlesFinished' = totalBattlesFinished + 1
  /\ UNCHANGED <<now, predictionGame, propVars, storeVars, tokenVars, historyVars, callVars, equipment,
                 battle, characterCount, battleCount, lastTurn>>

\* the level-up of game_grantXP: one level at most per call
LevelUp(c) ==
  LET xpForNextLevel == c.level * 200
  IN IF c.xp >= xpForNextLevel
       THEN [c EXCEPT !.level = @ + 1, !.xp = @ - xpForNextLevel,
                      !.maxHp = @ + 5, !.currentHp = c.maxHp + 5,
                      !.baseDamageMin = @ + 1, !.baseDamageMax = @ + 2]
       ELSE c

\* the switch of game_upgradeCharacter; any other upgrade type aborts
Upgraded(c, upgradeType) ==
  CASE upgradeType = 0 -> [c EXCEPT !.maxHp = @ + 10, !.currentHp = c.maxHp + 10]
    [] upgradeType = 1 -> [c EXCEPT !.baseDamageMin = @ + 2, !.baseDamageMax = @ + 3]
    [] upgradeType = 2 -> [c EXCEPT !.critChance = IF @ < 50 THEN @ + 5 ELSE @]
    [] upgradeType = 3 -> [c EXCEPT !.dodgeChance = IF @ < 40 THEN @ + 5 ELSE @]

game_upgradeCharacter(caller, charId, upgradeType) ==
  /\ CallAllowed(caller)
  /\ whenNotPaused
  /\ nonReentrant
  /\ character[charId].exists
  /\ caller = character[charId].owner
  /\ character[charId].xp >= 100
  /\ upgradeType \in 0..3
  /\ LET char == Upgraded([character[charId] EXCEPT !.xp = @ - 100], upgradeType)
     IN /\ char.maxHp <= MaxCharacterHp
        /\ character' = [character EXCEPT ![charId] = char]
  /\ UNCHANGED <<now, predictionGame, propVars, storeVars, tokenVars, historyVars, callVars, equipment,
                 battle, characterCount, battleCount, totalBattlesFinished,
                 lastTurn>>

\* game_grantXP takes neither the pause check nor the reentrancy gate
game_grantXP(caller, charId, xpAmount) ==
  /\ CallAllowed(caller)
  /\ onlyRole(ADMIN_ROLE, caller)
  /\ character[charId].exists
  /\ LET char == LevelUp([character[charId] EXCEPT !.xp = @ + xpAmount])
     IN /\ char.level <= MaxLevel
        /\ char.xp <= MaxXp
        /\ character' = [character EXCEPT ![charId] = char]
  /\ UNCHANGED <<now, predictionGame, propVars, storeVars, tokenVars, historyVars, callVars, equipment,
                 battle, characterCount, battleCount, totalBattlesFinished,
                 lastTurn>>

game_healCharacter(caller, charId) ==
  /\ CallAllowed(caller)
  /\ whenNotPaused
  /\ nonReentrant
  /\ character[charId].exists
  /\ caller = character[charId].owner
  /\ character' = [character EXCEPT ![charId].currentHp = character[charId].maxHp]
  /\ UNCHANGED <<now, predictionGame, propVars, storeVars, tokenVars, historyVars, callVars, equipment,
                 battle, characterCount, battleCount, totalBattlesFinished,
                 lastTurn>>

game_learnSkill(caller, characterId, skillId) ==
  /\ CallAllowed(caller)
  /\ whenNotPaused
  /\ nonReentrant
  /\ skillId > SKILL_NONE /\ skillId <= SKILL_COMBO_BREAKER
  /\ character[characterId].exists
  /\ caller = character[characterId].owner
  /\ skillId \notin character[characterId].learnedSkills
  /\ LET requiredLevel == IF skillId <= 3 THEN 1 ELSE IF skillId <= 6 THEN 5 ELSE 10
     IN character[characterId].level >= requiredLevel
  /\ character' = [character EXCEPT ![characterId].learnedSkills = @ \cup {skillId}]
  /\ UNCHANGED <<now, predictionGame, propVars, storeVars, tokenVars, historyVars, callVars, equipment,
                 battle, characterCount, battleCount, totalBattlesFinished,
                 lastTurn>>

game_equipSkill(caller, characterId, skillId, slot) ==
  /\ CallAllowed(caller)
  /\ whenNotPaused
  /\ nonReentrant
  /\ slot >= 1 /\ slot <= 3
  /\ character[characterId].exists
  /\ caller = character[characterId].owner
  /\ skillId # SKILL_NONE => skillId \in character[characterId].learnedSkills
  /\ character' = [character EXCEPT ![characterId] =
                     IF slot = 1 THEN [@ EXCEPT !.skill1 = skillId]
                     ELSE IF slot = 2 THEN [@ EXCEPT !.skill2 = skillId]
                     ELSE [@ EXCEPT !.skill3 = skillId]]
  /\ UNCHANGED <<now, predictionGame, propVars, storeVars, tokenVars, historyVars, callVars, equipment,
                 battle, characterCount, battleCount, totalBattlesFinished,
                 lastTurn>>

\* game_setPaused takes the role check only
game_setPaused(caller, flag) ==
  /\ CallAllowed(caller)
  /\ onlyRole(PAUSER_ROLE, caller)
  /\ paused' = flag
  /\ UNCHANGED <<now, predictionGame, propVars, gameVars, locked, roles, authSettlers, spool, sbet,
                 streak, treasuryBalance, totalBetsPlaced, totalBetsClaimed,
                 singlePoolCount, multipoolCount, mpool, betslip,
                 tokenVars, historyVars, callVars>>

\* game_addToTreasury takes the reentrancy gate but not the pause check, and
\* it asks for no role
game_addToTreasury(caller, amount) ==
  /\ CallAllowed(caller)
  /\ nonReentrant
  /\ treasuryBalance + amount <= MaxTreasury
  /\ treasuryBalance' = treasuryBalance + amount
  /\ UNCHANGED <<now, predictionGame, propVars, gameVars, locked, paused, roles, authSettlers, spool,
                 sbet, streak, totalBetsPlaced, totalBetsClaimed,
                 singlePoolCount, multipoolCount, mpool, betslip,
                 tokenVars, historyVars, callVars>>

\* ------------------------------------------------------- round-based game

\* the two assertions of PredictionGame.placeBet
BetAllowedAnyStatus(g, caller) ==
  \A p \in g.players : p.address # caller
BetAllowed(g, caller) ==
  /\ g.status = "active"
  /\ \A p \in g.players : p.address # caller

startGame ==
  /\ predictionGame.status = "inactive"
  /\ predictionGame' =
       [predictionGame EXCEPT
          !.status = "active",
          !.currentRound = [exists |-> TRUE, roundId |-> predictionGame.gameId,
                            bets |-> <<>>, totalBetAmount |-> 0]]
  /\ UNCHANGED <<now, storeVars, tokenVars, historyVars, callVars, gameVars,
                 propVars>>

placeBet(caller, amount, prediction) ==
  /\ BetAllowed(predictionGame, caller)
  /\ LET player == [address |-> caller, betAmount |-> amount, isActive |-> TRUE]
         bet == [player |-> player, amount |-> amount, prediction |-> prediction]
     IN predictionGame' =
          [predictionGame EXCEPT
             !.players = @ \cup {player},
             !.currentRound =
                IF @.exists
                  THEN [@ EXCEPT !.bets = Append(@, bet),
                                 !.totalBetAmount = @ + amount]
                  ELSE @]
  /\ UNCHANGED <<now, storeVars, tokenVars, historyVars, callVars, gameVars,
                 propVars>>

\* settleGame ends with resetGame(): the players are cleared, the round is
\* dropped, the status returns to inactive and the game id advances
settleGame(winningPrediction) ==
  /\ predictionGame.status = "active"
  /\ predictionGame' =
       [predictionGame EXCEPT
          !.players = {},
          !.currentRound = [exists |-> FALSE],
          !.status = "inactive",
          !.gameId = @ + 1]
  /\ UNCHANGED <<now, storeVars, tokenVars, historyVars, callVars, gameVars,
                 propVars>>

\* ------------------------------------------------------------ specification

NextSingle ==
  \/ Tick
  \/ \E caller \in Addresses, addr \in SettlerInputs :
       prediction_setAuthorizedSettler(caller, addr)
  \/ \E caller \in Addresses, poolId \in PoolIds, closeTs \in CloseTimes :
       prediction_createSinglePool(caller, poolId, Token, closeTs)
  \/ \E caller \in Addresses, poolId \in PoolIds, o \in OutcomeInputs, amount \in Amounts :
       /\ totalBetsPlaced < MaxBetsPlaced
       /\ prediction_placeSingleBet(caller, poolId, o, amount)
  \/ \E caller \in Addresses, poolId \in PoolIds :
       prediction_closeSinglePool(caller, poolId)
  \/ \E caller \in Addresses, poolId \in PoolIds, o \in OutcomeInputs :
       prediction_settleSinglePool(caller, poolId, o)
  \/ \E caller \in Addresses, poolId \in PoolIds, bettor \in Addresses :
       prediction_claimSingleBet(caller, poolId, bettor)
  \/ claimSingleBet_afterPayout
  \/ claimSingleBet_afterBonus
  \/ ExternalCallFails

Spec == Init /\ [][NextSingle]_vars

\* The parlay market on top of the single pools.
Legs == [poolId : PoolIds, outcome : ParlayOutcomeInputs]
SelectionInputs == UNION {[1..n -> Legs] : n \in 0..MaxLegs}

NextParlay ==
  \/ Tick
  \/ \E caller \in Addresses, addr \in SettlerInputs :
       prediction_setAuthorizedSettler(caller, addr)
  \/ \E caller \in Addresses, poolId \in PoolIds, closeTs \in CloseTimes :
       prediction_createSinglePool(caller, poolId, Token, closeTs)
  \/ \E caller \in ParlayStakers, poolId \in PoolIds, o \in ParlayOutcomeInputs,
        amount \in ParlayStakes :
       prediction_placeSingleBet(caller, poolId, o, amount)
  \/ \E caller \in Addresses, poolId \in PoolIds :
       prediction_closeSinglePool(caller, poolId)
  \/ \E caller \in Addresses, poolId \in PoolIds, o \in ParlayOutcomeInputs :
       prediction_settleSinglePool(caller, poolId, o)
  \/ \E caller \in Addresses, multipoolId \in MultipoolIds :
       prediction_createMultipool(caller, multipoolId, Token)
  \/ \E caller \in ParlayBettors, betslipId \in BetslipIds, multipoolId \in MultipoolIds,
        amount \in ParlayAmounts, sels \in SelectionInputs :
       /\ totalBetsPlaced < MaxParlayBets
       /\ prediction_placeMultibet(caller, betslipId, multipoolId, amount, sels)
  \/ \E caller \in Addresses, betslipId \in BetslipIds :
       prediction_checkBetslipWinner(caller, betslipId)
  \/ \E caller \in Addresses, multipoolId \in MultipoolIds :
       prediction_finalizeMultipool(caller, multipoolId)
  \/ \E caller \in Addresses, betslipId \in BetslipIds :
       prediction_claimMultibet(caller, betslipId)
  \/ claimMultibet_afterPayout
  \/ ExternalCallFails

SpecParlay == Init /\ [][NextParlay]_vars

\* The single market entered with earlier win streaks: first bets only, and
\* time observed up to the last close time.
NextStreak ==
  \/ (Tick /\ \E p \in PoolIds : spool[p].exists /\ now < spool[p].closeTs)
  \/ \E caller \in Addresses, addr \in SettlerInputs :
       prediction_setAuthorizedSettler(caller, addr)
  \/ \E caller \in Addresses, poolId \in PoolIds, closeTs \in CloseTimes :
       prediction_createSinglePool(caller, poolId, Token, closeTs)
  \/ \E caller \in Bettors, poolId \in PoolIds, o \in ParlayOutcomeInputs,
        amount \in Amounts :
       /\ ~sbet[<<poolId, caller>>].exists
       /\ prediction_placeSingleBet(caller, poolId, o, amount)
  \/ \E caller \in Addresses, poolId \in PoolIds :
       prediction_closeSinglePool(caller, poolId)
  \/ \E caller \in Addresses, poolId \in PoolIds, o \in ParlayOutcomeInputs :
       prediction_settleSinglePool(caller, poolId, o)
  \/ \E caller \in Addresses, poolId \in PoolIds, bettor \in Addresses :
       prediction_claimSingleBet(caller, poolId, bettor)
  \/ claimSingleBet_afterPayout
  \/ claimSingleBet_afterBonus
  \/ ExternalCallFails

SpecStreak == InitStreak /\ [][NextStreak]_vars

\* Parlays over two pools whose stakes give the odds 2,000,000 / 1,809,523 and
\* 1,500,000 / 2,590,909: first bets and first betslips only.
ScenarioBets ==
  {[bettor |-> "a", poolId |-> "p1", outcome |-> 0, amount |-> 475],
   [bettor |-> "b", poolId |-> "p1", outcome |-> 1, amount |-> 525],
   [bettor |-> "a", poolId |-> "p2", outcome |-> 0, amount |-> 380],
   [bettor |-> "b", poolId |-> "p2", outcome |-> 1, amount |-> 220]}

NextFold ==
  \/ (Tick /\ \E p \in PoolIds : spool[p].exists /\ now < spool[p].closeTs)
  \/ \E caller \in Addresses, poolId \in PoolIds, closeTs \in CloseTimes :
       prediction_createSinglePool(caller, poolId, Token, closeTs)
  \/ \E bet \in ScenarioBets :
       /\ ~sbet[<<bet.poolId, bet.bettor>>].exists
       /\ prediction_placeSingleBet(bet.bettor, bet.poolId, bet.outcome, bet.amount)
  \/ \E caller \in Addresses, poolId \in PoolIds :
       prediction_closeSinglePool(caller, poolId)
  \/ \E caller \in Addresses, multipoolId \in MultipoolIds :
       prediction_createMultipool(caller, multipoolId, Token)
  \/ \E caller \in ParlayBettors, betslipId \in BetslipIds, multipoolId \in MultipoolIds,
        amount \in ParlayAmounts, sels \in SelectionInputs :
       /\ ~betslip[betslipId].exists
       /\ prediction_placeMultibet(caller, betslipId, multipoolId, amount, sels)

SpecFold == Init /\ [][NextFold]_vars

\* Both markets with both kinds of claim; betslips of at most one leg.
ShortSelectionInputs == {sels \in SelectionInputs : Len(sels) <= 1}

NextMarket ==
  \/ Tick
  \/ \E caller \in Addresses, addr \in SettlerInputs :
       prediction_setAuthorizedSettler(caller, addr)
  \/ \E caller \in Addresses, poolId \in PoolIds, closeTs \in CloseTimes :
       prediction_createSinglePool(caller, poolId, Token, closeTs)
  \/ \E caller \in ParlayStakers, poolId \in PoolIds, o \in ParlayOutcomeInputs,
        amount \in ParlayStakes :
       prediction_placeSingleBet(caller, poolId, o, amount)
  \/ \E caller \in Addresses, poolId \in PoolIds :
       prediction_closeSinglePool(caller, poolId)
  \/ \E caller \in Addresses, poolId \in PoolIds, o \in ParlayOutcomeInputs :
       prediction_settleSinglePool(caller, poolId, o)
  \/ \E caller \in Addresses, multipoolId \in MultipoolIds :
       prediction_createMultipool(caller, multipoolId, Token)
  \/ \E caller \in ParlayBettors, betslipId \in BetslipIds, multipoolId \in MultipoolIds,
        amount \in ParlayAmounts, sels \in ShortSelectionInputs :
       /\ totalBetsPlaced < MaxParlayBets
       /\ prediction_placeMultibet(caller, betslipId, multipoolId, amount, sels)
  \/ \E caller \in Addresses, betslipId \in BetslipIds :
       prediction_checkBetslipWinner(caller, betslipId)
  \/ \E caller \in Addresses, multipoolId \in MultipoolIds :
       prediction_finalizeMultipool(caller, multipoolId)
  \/ \E caller \in Addresses, betslipId \in BetslipIds :
       prediction_claimMultibet(caller, betslipId)
  \/ \E caller \in Addresses, poolId \in PoolIds, bettor \in Addresses :
       prediction_claimSingleBet(caller, poolId, bettor)
  \/ claimSingleBet_afterPayout
  \/ claimSingleBet_afterBonus
  \/ claimMultibet_afterPayout
  \/ ExternalCallFails

SpecMarket == Init /\ [][NextMarket]_vars

\* the draws that make a wildcard of type 0, the one that changes HP
BenefitTypeRolls == {r \in WildcardTypeRolls : r % 4 = 0}

\* the battle engine: characters are created, fight one battle and finalize it
NextBattle ==
  \/ \E caller \in Players, id \in CharacterIds, classU8 \in ClassInputs :
       game_createCharacter(caller, id, classU8)
  \/ \E caller \in Players, battleId \in BattleIds,
        char1Id \in CharacterIds, char2Id \in CharacterIds :
       game_createBattle(caller, battleId, char1Id, char2Id)
  \/ \E caller \in Players, battleId \in BattleIds,
        attackerCharId \in CharacterIds, skillSlot \in SkillSlotInputs,
        roll \in WildcardRolls, typeRoll \in BenefitTypeRolls,
        rnd \in TurnRolls :
       /\ battle[battleId].exists
       /\ battle[battleId].turnNumber < MaxTurns
       /\ game_executeTurn(caller, battleId, attackerCharId, skillSlot, roll,
                           typeRoll, rnd)
  \/ \E caller \in Players, battleId \in BattleIds, accept \in BOOLEAN,
        playerCharId \in CharacterIds :
       game_decideWildcard(caller, battleId, accept, playerCharId)
  \/ \E caller \in Players, battleId \in BattleIds :
       game_finalizeBattle(caller, battleId)

SpecBattle == InitBattle /\ [][NextBattle]_vars

\* the wildcard sub-state: two veterans fight while time passes
InitWildcard ==
  /\ InitBattle
  /\ \A c \in CharacterIds : character[c].exists

\* the draws of a turn without a critical hit and without a dodge
PlainRolls == {r \in TurnRolls : r.crit = 99 /\ r.dodge = 99}

NextWildcard ==
  \/ Tick
  \/ \E caller \in Players, battleId \in BattleIds,
        char1Id \in CharacterIds, char2Id \in CharacterIds :
       game_createBattle(caller, battleId, char1Id, char2Id)
  \/ \E caller \in Players, battleId \in BattleIds,
        attackerCharId \in CharacterIds, skillSlot \in SkillSlotInputs,
        roll \in WildcardRolls, typeRoll \in WildcardTypeRolls,
        rnd \in PlainRolls :
       /\ battle[battleId].exists
       /\ battle[battleId].turnNumber < MaxTurns
       /\ game_executeTurn(caller, battleId, attackerCharId, skillSlot, roll,
                           typeRoll, rnd)
  \/ \E caller \in Players, battleId \in BattleIds, accept \in BOOLEAN,
        playerCharId \in CharacterIds :
       game_decideWildcard(caller, battleId, accept, playerCharId)

SpecWildcard == InitWildcard /\ [][NextWildcard]_vars

\* a character's career: created, trained by the admin's XP grants, upgraded,
\* taught a skill, and taken through a battle
\* the character that is trained
Trainees == {"c1"}
XpInputs == {200}
UpgradeInputs == {0}
SkillInputs == {SKILL_POWER_STRIKE, SKILL_HEAL}

\* the draws of a turn in which every hit is critical and none is dodged
CriticalRolls == {r \in TurnRolls : r.crit = 0 /\ r.dodge = 99}

NextCharacter ==
  \/ \E caller \in {"a"}, id \in CharacterIds :
       game_createCharacter(caller, id, 1)
  \/ \E charId \in Trainees, xpAmount \in XpInputs :
       game_grantXP(Deployer, charId, xpAmount)
  \/ \E caller \in {"a"}, charId \in Trainees, upgradeType \in UpgradeInputs :
       game_upgradeCharacter(caller, charId, upgradeType)
  \/ \E caller \in {"a"}, charId \in Trainees :
       game_healCharacter(caller, charId)
  \/ \E caller \in {"a"}, characterId \in Trainees, skillId \in SkillInputs :
       game_learnSkill(caller, characterId, skillId)
  \/ \E caller \in {"a"}, characterId \in Trainees, skillId \in SkillInputs :
       game_equipSkill(caller, characterId, skillId, 1)
  \/ \E caller \in {"a"}, battleId \in BattleIds,
        char1Id \in CharacterIds, char2Id \in CharacterIds :
       game_createBattle(caller, battleId, char1Id, char2Id)
  \/ \E caller \in {"a"}, battleId \in BattleIds,
        attackerCharId \in CharacterIds, skillSlot \in SkillSlotInputs,
        roll \in WildcardRolls, typeRoll \in BenefitTypeRolls,
        rnd \in CriticalRolls :
       /\ battle[battleId].exists
       /\ battle[battleId].turnNumber < MaxTurns
       /\ game_executeTurn(caller, battleId, attackerCharId, skillSlot, roll,
                           typeRoll, rnd)
  \/ \E caller \in {"a"}, battleId \in BattleIds :
       game_finalizeBattle(caller, battleId)

SpecCharacter == Init /\ [][NextCharacter]_vars

\* The reentrancy gate. The contract was deployed by the contract that also
\* serves as the asset contract of its pools: game_constructor gives
\* ADMIN_ROLE to its caller, whoever that is. While a claim is suspended in a
\* transfer, the asset contract calls back in with the admin's role.
InitGate ==
  /\ InitStore
  /\ roles = {<<ADMIN_ROLE, Token>>}
  /\ streak = [a \in Addresses |-> 0]
  /\ character = [c \in CharacterIds |-> NoCharacter]
  /\ characterCount = 0

NextGate ==
  \/ Tick
  \/ \E addr \in SettlerInputs :
       prediction_setAuthorizedSettler(Token, addr)
  \/ \E poolId \in PoolIds, closeTs \in CloseTimes :
       prediction_createSinglePool("a", poolId, Token, closeTs)
  \/ \E poolId \in PoolIds, o \in {0, 1}, amount \in Amounts :
       /\ totalBetsPlaced < MaxBetsPlaced
       /\ prediction_placeSingleBet("a", poolId, o, amount)
  \/ \E poolId \in PoolIds :
       prediction_closeSinglePool(Oracle, poolId)
  \/ \E poolId \in PoolIds, o \in {0, 1} :
       prediction_settleSinglePool(Oracle, poolId, o)
  \/ \E caller \in {"a", Token}, poolId \in PoolIds :
       prediction_claimSingleBet(caller, poolId, "a")
  \/ claimSingleBet_afterPayout
  \/ claimSingleBet_afterBonus
  \/ ExternalCallFails
  \/ \E caller \in {"a", Token} :
       game_createCharacter(caller, "c1", 1)
  \/ \E caller \in {"a", Token} :
       game_grantXP(caller, "c1", 200)
  \/ \E caller \in {"a", Token} :
       game_healCharacter(caller, "c1")
  \/ \E caller \in {"a", Token} :
       game_addToTreasury(caller, 1)

SpecGate == InitGate /\ [][NextGate]_vars

\* The pause flag. No entry point writes a role key other than the admin's,
\* so a pauser exists only when its key 'pauser:<addr>' was written into the
\* datastore at deployment; here the deployer holds both roles.
InitPause ==
  /\ InitStore
  /\ roles = {<<ADMIN_ROLE, Deployer>>, <<PAUSER_ROLE, Deployer>>}
  /\ streak = [a \in Addresses |-> 0]
  /\ character = [c \in CharacterIds |-> NoCharacter]
  /\ characterCount = 0

NextPause ==
  \/ \E caller \in Addresses, flag \in BOOLEAN :
       game_setPaused(caller, flag)
  \/ \E caller \in Players, id \in CharacterIds :
       game_createCharacter(caller, id, 1)
  \/ \E caller \in Addresses, charId \in CharacterIds, xpAmount \in XpInputs :
       game_grantXP(caller, charId, xpAmount)
  \/ \E caller \in Players, charId \in CharacterIds, upgradeType \in UpgradeInputs :
       game_upgradeCharacter(caller, charId, upgradeType)
  \/ \E caller \in Players, charId \in CharacterIds :
       game_healCharacter(caller, charId)
  \/ \E caller \in Players, amount \in 1..MaxTreasury :
       game_addToTreasury(caller, amount)
  \/ \E caller \in Players, poolId \in PoolIds, closeTs \in CloseTimes :
       prediction_createSinglePool(caller, poolId, Token, closeTs)

SpecPause == InitPause /\ [][NextPause]_vars

\* rounds of the round-based PredictionGame
NextRound ==
  \/ /\ predictionGame.gameId < MaxRounds
     /\ startGame
  \/ \E caller \in Bettors \cup {Oracle}, amount \in Amounts, prediction \in {"win", "lose"} :
       placeBet(caller, amount, prediction)
  \/ \E winningPrediction \in {"win", "lose"} :
       settleGame(winningPrediction)

SpecRound == Init /\ [][NextRound]_vars

\* A duel of two poisoners. Each player has created an assassin, which has
\* learned SKILL_POISON_STRIKE (level 1 suffices) and equipped it in slot 1.
Duelist(owner) ==
  [ClassStats(owner, 1) EXCEPT !.learnedSkills = {SKILL_POISON_STRIKE},
                               !.skill1 = SKILL_POISON_STRIKE]

InitDuel ==
  /\ InitStore
  /\ roles = {<<ADMIN_ROLE, Deployer>>}
  /\ streak = [a \in Addresses |-> 0]
  /\ character = [c \in CharacterIds |-> Duelist(IF c = "c1" THEN "a" ELSE "b")]
  /\ characterCount = 2

\* the draws of a duel turn: the least or the greatest damage, critical or
\* not, never dodged; the wildcard roll never triggers
DuelRolls == [damage : {0, 8}, crit : CritRolls, dodge : {99}]

NextDuel ==
  \/ \E battleId \in BattleIds :
       game_createBattle("a", battleId, "c1", "c2")
  \/ \E caller \in Players, battleId \in BattleIds,
        attackerCharId \in CharacterIds, skillSlot \in SkillSlotInputs,
        rnd \in DuelRolls :
       /\ battle[battleId].exists
       /\ battle[battleId].turnNumber < MaxDuelTurns
       /\ game_executeTurn(caller, battleId, attackerCharId, skillSlot, 50, 0, rnd)
  \/ \E caller \in Players, battleId \in BattleIds :
       game_finalizeBattle(caller, battleId)

SpecDuel == InitDuel /\ [][NextDuel]_vars

\* ------------------------------------------------------------- properties

BetKeys == PoolIds \X Addresses

BetClaimed(k) == sbet[k].exists /\ sbet[k].isClaimed
IsWinningBet(k) ==
  /\ sbet[k].exists
  /\ spool[k[1]].exists
  /\ spool[k[1]].isSettled
  /\ sbet[k].outcome = spool[k[1]].winningOutcome

\* C1: for every settled single pool the base payouts transferred to its
\* winning bettors add up to no more than payoutPool = totalPool -
\* floor(totalPool * houseEdgeBps / 10000); a pool that is not settled has
\* paid nothing.
C1_BasePayoutsWithinPayoutPool ==
  \A p \in PoolIds :
    /\ paidBase[p] >= 0
    /\ spool[p].exists /\ spool[p].isSettled => paidBase[p] <= PayoutPool(spool[p])
    /\ ~(spool[p].exists /\ spool[p].isSettled) => paidBase[p] = 0

\* two winners of one pool have both been paid and rounding left a remainder
C1_Witness ==
  \E p \in PoolIds : \E a, b \in Addresses :
    /\ a # b
    /\ frame.op = "none"
    /\ IsWinningBet(<<p, a>>) /\ BetClaimed(<<p, a>>)
    /\ IsWinningBet(<<p, b>>) /\ BetClaimed(<<p, b>>)
    /\ paidBase[p] > 0
    /\ paidBase[p] < PayoutPool(spool[p])

\* C2: placeSingleBet is rejected when the caller already has a bet record on
\* the pool: the stored bet of an existing (pool, bettor) pair keeps its
\* amount and outcome for ever.
C2_SecondBetRejected ==
  [][\A k \in BetKeys :
       sbet[k].exists =>
         /\ sbet'[k].exists
         /\ sbet'[k].amount = sbet[k].amount
         /\ sbet'[k].outcome = sbet[k].outcome]_vars

\* C3: claimSingleBet is accepted at most once for every (pool, bettor) pair,
\* whether the bet won or lost.
C3_SingleBetClaimedOnce == \A k \in BetKeys : claimCount[k] <= 1

\* a winning and a losing bet of one pool have both been claimed
C3_Witness ==
  \E p \in PoolIds : \E a, b \in Addresses :
    /\ frame.op = "none"
    /\ BetClaimed(<<p, a>>) /\ IsWinningBet(<<p, a>>) /\ claimCount[<<p, a>>] = 1
    /\ BetClaimed(<<p, b>>) /\ ~IsWinningBet(<<p, b>>) /\ claimCount[<<p, b>>] = 1

\* C4: claimMultibet is accepted at most once for every betslip id, whatever
\* other calls (placeMultibet included) are made in between.
C4_BetslipClaimedOnce == \A s \in BetslipIds : slipClaimCount[s] <= 1

\* C5: while a claim is suspended in its token transfer, no call into the
\* contract is accepted: no pool, bet, multipool or betslip record changes, no
\* claim is counted and no base payout is made, until the claim returns or
\* aborts (an abort puts back the state the claim started from).
C5_NoNestedCallDuringClaim ==
  [][frame.op # "none" =>
       \/ /\ frame' = NoFrame
          /\ spool' = saved.spool /\ sbet' = saved.sbet
          /\ mpool' = saved.mpool /\ betslip' = saved.betslip
          /\ claimCount' = saved.claimCount
          /\ slipClaimCount' = saved.slipClaimCount
          /\ locked' = saved.locked
       \/ /\ spool' = spool /\ sbet' = sbet
          /\ mpool' = mpool /\ betslip' = betslip
          /\ claimCount' = claimCount /\ slipClaimCount' = slipClaimCount
          /\ paidBase' = paidBase
          /\ totalBetsPlaced' = totalBetsPlaced
          /\ frame'.op \in {"none", frame.op}]_vars

\* a claim is suspended in its transfer while another settled bet and an
\* accounted betslip of a finalized multipool wait to be claimed
C5_Witness ==
  /\ frame.op = "claimSingleBet"
  /\ locked
  /\ \E k \in BetKeys :
       /\ k # <<frame.poolId, frame.bettor>>
       /\ sbet[k].exists /\ ~sbet[k].isClaimed
       /\ spool[k[1]].isSettled
  /\ \E s \in BetslipIds :
       /\ betslip[s].exists /\ ~betslip[s].isClaimed /\ betslip[s].isAccounted
       /\ mpool[betslip[s].multipoolId].isFinalized

\* C6: a pool becomes settled only in a step taken by a caller on the
\* authorized-settler list, from a state in which it is closed and not yet
\* settled; a settled pool stays settled and its winning outcome never changes.
C6_SettledOnlyWhenClosedByAuthorized ==
  [][\A p \in PoolIds :
       /\ spool[p].exists /\ spool[p].isSettled =>
            /\ spool'[p].exists /\ spool'[p].isSettled
            /\ spool'[p].winningOutcome = spool[p].winningOutcome
            /\ settledBy'[p] = settledBy[p]
       /\ spool'[p].exists /\ spool'[p].isSettled
            /\ ~(spool[p].exists /\ spool[p].isSettled) =>
            /\ spool[p].exists /\ spool[p].isClosed
            /\ spool'[p].isClosed
            /\ settledBy'[p] \in authSettlers
       /\ spool'[p].exists /\ ~spool'[p].isSettled =>
            spool'[p].winningOutcome = -1 /\ settledBy'[p] = "none"]_vars

\* a pool settled by the oracle while an unauthorized address exists
C6_Witness ==
  \E p \in PoolIds :
    /\ spool[p].exists /\ spool[p].isSettled
    /\ settledBy[p] = Oracle
    /\ spool[p].winningOutcome \in {0, 1}
    /\ spool[p].totalPool > 0

\* C7: once a pool is closed, or the time has reached its close time, no
\* operation changes its totals; once it is closed it stays closed and its
\* odds snapshot never changes.
C7_NoChangeAfterClose ==
  [][\A p \in PoolIds :
       spool[p].exists /\ (spool[p].isClosed \/ now >= spool[p].closeTs) =>
         /\ spool'[p].exists
         /\ spool'[p].totalPool = spool[p].totalPool
         /\ spool'[p].outcomeABets = spool[p].outcomeABets
         /\ spool'[p].outcomeBBets = spool[p].outcomeBBets
         /\ spool[p].isClosed =>
              /\ spool'[p].isClosed
              /\ spool'[p].outcomeAOddsFP = spool[p].outcomeAOddsFP
              /\ spool'[p].outcomeBOddsFP = spool[p].outcomeBOddsFP]_vars

\* a closed pool with stakes on both outcomes has been settled and claimed from
C7_Witness ==
  \E p \in PoolIds :
    /\ spool[p].exists /\ spool[p].isClosed /\ spool[p].isSettled
    /\ spool[p].outcomeABets > 0 /\ spool[p].outcomeBBets > 0
    /\ paidBase[p] > 0
    /\ now >= spool[p].closeTs

\* odds is floor(payoutPool * 1000000 / stake)
IsOddsOf(odds, payoutPool, stake) ==
  /\ odds * stake <= payoutPool * ODDS_SCALE
  /\ payoutPool * ODDS_SCALE < (odds + 1) * stake

\* C8: a pool is closed only at or after its close time; a closed pool holds,
\* for each outcome with a non-zero stake, odds = floor(payoutPool * 1000000 /
\* stake) and 0 for an outcome with no stake; a pool that is not closed holds
\* odds 0.  With 1000 on each outcome both odds are 1,900,000.
C8_OddsSnapshotAtClose ==
  \A p \in PoolIds :
    spool[p].exists =>
      IF spool[p].isClosed
      THEN /\ now >= spool[p].closeTs
           /\ IF spool[p].outcomeABets > 0
              THEN IsOddsOf(spool[p].outcomeAOddsFP, PayoutPool(spool[p]),
                            spool[p].outcomeABets)
              ELSE spool[p].outcomeAOddsFP = 0
           /\ IF spool[p].outcomeBBets > 0
              THEN IsOddsOf(spool[p].outcomeBOddsFP, PayoutPool(spool[p]),
                            spool[p].outcomeBBets)
              ELSE spool[p].outcomeBOddsFP = 0
           /\ spool[p].outcomeABets = 1000 /\ spool[p].outcomeBBets = 1000 =>
                /\ spool[p].outcomeAOddsFP = 1900000
                /\ spool[p].outcomeBOddsFP = 1900000
      ELSE spool[p].outcomeAOddsFP = 0 /\ spool[p].outcomeBOddsFP = 0

\* the pool of the scenario, closed
C8_Witness ==
  \E p \in PoolIds :
    /\ spool[p].exists /\ spool[p].isClosed
    /\ spool[p].outcomeABets = 1000 /\ spool[p].outcomeBBets = 1000
    /\ spool[p].outcomeAOddsFP = 1900000

\* C9: totalPool of a single pool equals outcomeABets + outcomeBBets in every
\* state.
C9_TotalIsSumOfOutcomes ==
  \A p \in PoolIds :
    spool[p].exists =>
      spool[p].totalPool = spool[p].outcomeABets + spool[p].outcomeBBets

\* a pool that holds a bet on outcome A and a bet on an outcome other than 0, 1
C9_Witness ==
  \E p \in PoolIds : \E a, b \in Addresses :
    /\ spool[p].exists /\ spool[p].outcomeABets > 0
    /\ sbet[<<p, a>>].exists /\ sbet[<<p, a>>].outcome = 0
    /\ sbet[<<p, b>>].exists /\ sbet[<<p, b>>].outcome \notin {0, 1}

\* C10: the payout transfer of a winning claim is made to the bettor of the
\* bet, for exactly floor(payoutPool * bet.amount / winnerStake), and that
\* amount is what the claim adds to the pool's base payouts; the scenario's
\* winner of 1000 against 1000 is sent 1900.
C10_WinningClaimPaysFloorShare ==
  frame.op = "claimSingleBet" /\ frame.stage = "payout" =>
    LET pool == spool[frame.poolId]
        bet == sbet[<<frame.poolId, frame.bettor>>]
        winnerStake == IF pool.winningOutcome = 0 THEN pool.outcomeABets
                                                  ELSE pool.outcomeBBets
        paid == frame.payoutU64
    IN /\ bet.exists /\ bet.bettor = frame.bettor
       /\ bet.outcome = pool.winningOutcome
       /\ paid * winnerStake <= PayoutPool(pool) * bet.amount
       /\ PayoutPool(pool) * bet.amount < (paid + 1) * winnerStake
       /\ paidBase[frame.poolId] - saved.paidBase[frame.poolId] = paid
       /\ pool.totalPool = 2000 /\ winnerStake = 1000 /\ bet.amount = 1000 =>
            paid = 1900

\* the scenario's winning claim at its payout transfer
C10_Witness ==
  /\ frame.op = "claimSingleBet"
  /\ frame.stage = "payout"
  /\ spool[frame.poolId].outcomeABets = 1000
  /\ spool[frame.poolId].outcomeBBets = 1000
  /\ spool[frame.poolId].winningOutcome = 0
  /\ frame.payoutU64 = 1900

\* bonus percentage of a win streak s >= 2
BonusPercent(s) == IF s < 5 THEN 5 * (s - 1) ELSE 25

\* C11: an accepted losing claim marks the bet claimed, makes no transfer and
\* sets the bettor's streak to 0; an accepted winning claim marks the bet
\* claimed and adds 1 to the bettor's streak; when the payout transfer of a
\* winning claim has returned and the new streak s is at least 2, the claim
\* makes a bonus transfer of floor(payout * p / 100) (p = 5 (s - 1) below 5,
\* else 25) unless that is 0, and the bonus is never above a quarter of the
\* payout; below a streak of 2 it makes none.
C11_StreakBookkeeping ==
  [][/\ \A k \in BetKeys :
          claimCount'[k] = claimCount[k] + 1 =>
            /\ sbet'[k].isClaimed
            /\ IF sbet[k].outcome # spool[k[1]].winningOutcome
               THEN /\ streak'[k[2]] = 0
                    /\ frame' = NoFrame
                    /\ paidBase' = paidBase
                    /\ tokenBal' = tokenBal
               ELSE /\ streak'[k[2]] = streak[k[2]] + 1
                    /\ frame'.op = "claimSingleBet"
                    /\ frame'.bettor = k[2]
                    /\ frame'.newStreak = streak[k[2]] + 1
     /\ /\ frame.op = "claimSingleBet"
        /\ frame.stage = "payout"
        /\ totalBetsClaimed' = totalBetsClaimed + 1
        => LET s == frame.newStreak
               bonus == IF s >= 2
                        THEN (frame.payoutU64 * BonusPercent(s)) \div 100
                        ELSE 0
           IN /\ bonus * 4 <= frame.payoutU64
              /\ IF bonus > 0
                 THEN /\ frame'.op = "claimSingleBet"
                      /\ frame'.stage = "bonus"
                      /\ frame'.streakBonus = bonus
                      /\ streak' = streak
                 ELSE frame' = NoFrame /\ tokenBal' = tokenBal]_vars

\* a fifth consecutive win is at its bonus transfer of a quarter of the payout
\* while a losing bet of the same pool has been claimed and its bettor's
\* streak is 0
C11_Witness ==
  /\ frame.op = "claimSingleBet"
  /\ frame.stage = "bonus"
  /\ frame.newStreak = 5
  /\ frame.streakBonus > 0
  /\ frame.streakBonus * 100 <= frame.payoutU64 * 25
  /\ frame.payoutU64 * 25 < (frame.streakBonus + 1) * 100
  /\ \E b \in Addresses :
       /\ BetClaimed(<<frame.poolId, b>>)
       /\ ~IsWinningBet(<<frame.poolId, b>>)
       /\ streak[b] = 0

\* the snapshot odds of a stored selection's pool and outcome
SnapshotOddsOf(sel) ==
  IF sel.outcome = 0 THEN spool[sel.poolId].outcomeAOddsFP
                     ELSE spool[sel.poolId].outcomeBOddsFP

\* floor(running * oddsFP / 1000000) folded from the left over the first n
\* stored selections, from 1000000
RECURSIVE FoldedOdds(_, _)
FoldedOdds(selections, n) ==
  IF n = 0 THEN 1000000
  ELSE MulDivScale(FoldedOdds(selections, n - 1), selections[n].oddsFP)

\* C12: every stored betslip records, for each selection, the snapshot odds of
\* the selection's pool and outcome; its combined odds are the left fold
\* floor(running * legOdds / 1000000) over its selections, from 1000000; and
\* its weight is floor(amount * combinedOdds / 1000000).  Legs of 2,000,000
\* and 1,500,000 give combined odds 3,000,000 and a weight of 3 * amount; a
\* single leg gives that leg's odds.
C12_CombinedOddsFold ==
  \A s \in BetslipIds :
    betslip[s].exists =>
      LET slip == betslip[s]
          sels == slip.selections
      IN /\ \A i \in 1..Len(sels) :
              /\ sels[i].oddsFP = SnapshotOddsOf(sels[i])
              /\ sels[i].oddsFP > 0
         /\ slip.combinedOddsFP = FoldedOdds(sels, Len(sels))
         /\ slip.weightFP = MulDivScale(slip.amount, slip.combinedOddsFP)
         /\ Len(sels) = 0 =>
              slip.combinedOddsFP = 1000000 /\ slip.weightFP = slip.amount
         /\ Len(sels) = 1 => slip.combinedOddsFP = sels[1].oddsFP
         /\ /\ Len(sels) = 2
            /\ sels[1].oddsFP = 2000000
            /\ sels[2].oddsFP = 1500000
            => /\ slip.combinedOddsFP = 3000000
               /\ slip.weightFP = 3 * slip.amount

\* the betslip of the example
C12_Witness ==
  \E s \in BetslipIds :
    /\ betslip[s].exists
    /\ Len(betslip[s].selections) = 2
    /\ betslip[s].selections[1].oddsFP = 2000000
    /\ betslip[s].selections[2].oddsFP = 1500000
    /\ betslip[s].weightFP = 3 * betslip[s].amount

\* the selection's pool is settled
LegSettled(sel) == spool[sel.poolId].exists /\ spool[sel.poolId].isSettled
\* the selection's pool is settled to the selection's outcome
LegMatches(sel) ==
  LegSettled(sel) /\ spool[sel.poolId].winningOutcome = sel.outcome
\* the step accounts betslip s
Accounts(s) ==
  /\ betslip[s].exists /\ ~betslip[s].isAccounted
  /\ betslip'[s].exists /\ betslip'[s].isAccounted

\* C13: an accounted betslip stays accounted (so checkBetslipWinner is never
\* accepted again for its id and its weight is not added again) and its winner
\* flag never changes, whatever operation follows.
C13_AccountedOnce ==
  [][\A s \in BetslipIds :
       betslip[s].exists /\ betslip[s].isAccounted =>
         /\ betslip'[s].exists
         /\ betslip'[s].isAccounted
         /\ betslip'[s].isWinner = betslip[s].isWinner
         /\ mpool'[betslip[s].multipoolId].totalWinnerWeightFP
              >= mpool[betslip[s].multipoolId].totalWinnerWeightFP]_vars

\* C14: a step that accounts a betslip marks it winner exactly when every one
\* of its selections has the outcome its pool was settled to, leaves every
\* other field of the betslip as it was, and adds the betslip's weight to the
\* multipool's winning weight exactly when it is a winner.
C14_WinnerIffAllLegsMatch ==
  [][\A s \in BetslipIds :
       Accounts(s) =>
         LET slip == betslip[s]
             allMatch == \A i \in 1..Len(slip.selections) :
                            LegMatches(slip.selections[i])
         IN /\ betslip'[s].isWinner = allMatch
            /\ betslip'[s] = [slip EXCEPT !.isWinner = allMatch,
                                          !.isAccounted = TRUE]
            /\ mpool'[slip.multipoolId].totalWinnerWeightFP =
                 mpool[slip.multipoolId].totalWinnerWeightFP
                   + (IF allMatch THEN slip.weightFP ELSE 0)]_vars

\* a two-leg betslip accounted as a loser whose first leg matched, next to a
\* multipool that holds no winning weight
C14_Witness ==
  \E s \in BetslipIds :
    /\ betslip[s].exists /\ betslip[s].isAccounted /\ ~betslip[s].isWinner
    /\ Len(betslip[s].selections) = 2
    /\ LegMatches(betslip[s].selections[1])
    /\ LegSettled(betslip[s].selections[2])
    /\ ~LegMatches(betslip[s].selections[2])
    /\ mpool[betslip[s].multipoolId].totalWinnerWeightFP = 0

C16_FinalizedTotalsFrozen ==
  [][\A m \in MultipoolIds :
       mpool[m].exists /\ mpool[m].isFinalized =>
         /\ mpool'[m].exists /\ mpool'[m].isFinalized
         /\ mpool'[m].totalPool = mpool[m].totalPool
         /\ mpool'[m].totalWeightFP = mpool[m].totalWeightFP
         /\ mpool'[m].totalWinnerWeightFP = mpool[m].totalWinnerWeightFP]_vars


\* a step in which game_executeTurn was accepted for battle b: it resolved a
\* turn or it triggered a wildcard
TurnResolved(b) ==
  /\ battle[b].exists
  /\ battle'[b].turnNumber # battle[b].turnNumber
WildcardTriggered(b) ==
  /\ battle[b].exists
  /\ ~battle[b].wildcardActive
  /\ battle'[b].wildcardActive

\* C17: turns alternate strictly. A call of game_executeTurn is accepted only
\* for an unfinished battle, from the owner of the acting side, on that side's
\* turn; a call that resolves a turn, stunned or not, adds one to turnNumber
\* and passes the turn to the other side; a call that only triggers a wildcard
\* changes neither; so side 1 acts on the even turn numbers and side 2 on the
\* odd ones, and nothing else ever moves the turn.
C17_TurnsAlternate ==
  [][\A b \in BattleIds :
       /\ (TurnResolved(b) \/ WildcardTriggered(b)) =>
            /\ ~battle[b].isFinished
            /\ lastTurn'.battleId = b
            /\ lastTurn'.turnNumber = battle[b].turnNumber
            /\ lastTurn'.side = battle[b].currentTurn
            /\ lastTurn'.caller = battle[b][SideField("Owner", battle[b].currentTurn)]
       /\ TurnResolved(b) =>
            /\ lastTurn'.outcome \in {"resolved", "stunned"}
            /\ battle'[b].turnNumber = battle[b].turnNumber + 1
            /\ battle'[b].currentTurn = Foe(battle[b].currentTurn)
       /\ (WildcardTriggered(b) /\ ~TurnResolved(b)) =>
            /\ lastTurn'.outcome = "wildcard"
            /\ battle'[b].currentTurn = battle[b].currentTurn
       /\ (battle[b].exists /\ ~TurnResolved(b)) =>
            battle'[b].currentTurn = battle[b].currentTurn
       /\ battle'[b].exists =>
            battle'[b].currentTurn = 1 + (battle'[b].turnNumber % 2)]_vars

\* two turns were resolved, by side 1 and then by side 2, and side 1's next
\* call triggered a wildcard and left the turn with side 1
C17_Witness ==
  \E b \in BattleIds :
    /\ battle[b].exists
    /\ battle[b].turnNumber = 2
    /\ battle[b].currentTurn = 1
    /\ battle[b].wildcardActive
    /\ lastTurn.battleId = b
    /\ lastTurn.outcome = "wildcard"
    /\ lastTurn.side = 1
    /\ lastTurn.turnNumber = 2

\* the wildcard sub-state of a battle
WildcardState(b) ==
  <<b.wildcardActive, b.wildcardType, b.wildcardDecisionDeadline,
    b.wildcardPlayer1Decision, b.wildcardPlayer2Decision>>

\* C18: a wildcard cannot trigger while one is active. While wildcardActive is
\* true, an accepted game_executeTurn call never ends as a wildcard trigger:
\* it resolves the turn and leaves the whole wildcard sub-state as it was; and
\* as long as the wildcard stays active its type and its deadline do not
\* change and a decision that was given is not cleared.
C18_NoTriggerWhileActive ==
  [][\A b \in BattleIds :
       (battle[b].exists /\ battle[b].wildcardActive) =>
         /\ lastTurn' # lastTurn =>
              /\ lastTurn'.outcome # "wildcard"
              /\ TurnResolved(b)
         /\ TurnResolved(b) =>
              WildcardState(battle'[b]) = WildcardState(battle[b])
         /\ battle'[b].wildcardActive =>
              /\ battle'[b].wildcardType = battle[b].wildcardType
              /\ battle'[b].wildcardDecisionDeadline
                   = battle[b].wildcardDecisionDeadline
              /\ battle[b].wildcardPlayer1Decision # -1 =>
                   battle'[b].wildcardPlayer1Decision # -1
              /\ battle[b].wildcardPlayer2Decision # -1 =>
                   battle'[b].wildcardPlayer2Decision # -1]_vars

\* Side 1 has decided on a wildcard that is still active, time has passed
\* since it was triggered, and the last accepted game_executeTurn call
\* resolved a turn: the wildcard was triggered before that turn
C18_Witness ==
  \E b \in BattleIds :
    /\ battle[b].exists
    /\ battle[b].wildcardActive
    /\ battle[b].wildcardPlayer1Decision = 1
    /\ battle[b].wildcardDecisionDeadline < now + WildcardDecisionWindow
    /\ lastTurn.battleId = b
    /\ lastTurn.outcome = "resolved"
    /\ battle[b].turnNumber = lastTurn.turnNumber + 1


\* C19: an unfinished battle becomes finished in a step if and only if the
\* step leaves a side's battle HP at 0, and while it is unfinished both sides
\* have HP left; in every state the winner is 1 or 2 exactly when the battle
\* is finished and 0 exactly when it is not.
C19_FinishedIffHpZero ==
  [][\A b \in BattleIds :
       /\ (battle[b].exists /\ ~battle[b].isFinished) =>
            /\ battle[b].player1Hp > 0
            /\ battle[b].player2Hp > 0
            /\ battle'[b].isFinished <=>
                 (battle'[b].player1Hp = 0 \/ battle'[b].player2Hp = 0)
       /\ battle'[b].exists =>
            /\ battle'[b].winner \in {0, 1, 2}
            /\ battle'[b].winner \in {1, 2} <=> battle'[b].isFinished
            /\ battle'[b].winner = 0 <=> ~battle'[b].isFinished
            /\ ~battle'[b].isFinished =>
                 (battle'[b].player1Hp > 0 /\ battle'[b].player2Hp > 0)]_vars

\* side 1 has brought side 2 down to 0 HP and won
C19_Witness ==
  \E b \in BattleIds :
    /\ battle[b].exists
    /\ battle[b].isFinished
    /\ battle[b].winner = 1
    /\ battle[b].player1Hp > 0
    /\ battle[b].player2Hp = 0
    /\ lastTurn.outcome = "resolved"
    /\ lastTurn.side = 1


\* the finished battles, and those a character has won or lost
FinishedBattles == {b \in BattleIds : battle[b].exists /\ battle[b].isFinished}
BattlesWonBy(c) ==
  {b \in FinishedBattles :
     (IF battle[b].winner = 1 THEN battle[b].player1Char
                              ELSE battle[b].player2Char) = c}
BattlesLostBy(c) ==
  {b \in FinishedBattles :
     (IF battle[b].winner = 1 THEN battle[b].player2Char
                              ELSE battle[b].player1Char) = c}

\* C20: the effects of game_finalizeBattle are counted at most once for each
\* battle: the counter of finished battles never exceeds the number of
\* finished battles, and no character has more wins, or more losses, than
\* finished battles it has won, or lost.
C20_FinalizedOncePerBattle ==
  /\ totalBattlesFinished <= Cardinality(FinishedBattles)
  /\ \A c \in CharacterIds :
       character[c].exists =>
         /\ character[c].totalWins <= Cardinality(BattlesWonBy(c))
         /\ character[c].totalLosses <= Cardinality(BattlesLostBy(c))



\* C22: the stored HP of a character never exceeds its maximum HP, and its
\* energy never exceeds MAX_ENERGY, whatever sequence of character creation,
\* XP grants, upgrades, heals, skills, battle turns and finalizations has run.
C22_HpAndEnergyWithinMaximum ==
  \A c \in CharacterIds :
    character[c].exists =>
      /\ character[c].currentHp <= character[c].maxHp
      /\ character[c].currentEnergy <= MAX_ENERGY

\* a character that has levelled up, been upgraded and learned SKILL_HEAL,
\* has paid for a skill in a battle (the energy is not yet back), and whose
\* battle went on to finish and was finalized
C22_Witness ==
  \E c \in CharacterIds, b \in BattleIds :
    /\ character[c].exists
    /\ character[c].level = 2
    /\ character[c].maxHp = 105
    /\ character[c].currentEnergy < MAX_ENERGY
    /\ character[c].totalWins + character[c].totalLosses > 0
    /\ SKILL_HEAL \in character[c].learnedSkills
    /\ battle[b].exists
    /\ battle[b].isFinished


\* C23: the reentrancy gate is taken by every mutating operation. While the
\* lock is set (an operation is suspended in its transfer), a step either
\* ends the suspended operation by aborting it, which restores the store it
\* began with, or leaves the characters, the treasury counter, the settler
\* list and the pause flag as they are: no nested call changes them. And the
\* lock is never left set once no operation is in progress.
C23_GateCoversEveryMutation ==
  [][/\ locked =>
          \/ /\ frame' = NoFrame
             /\ character' = saved.character
             /\ authSettlers' = saved.authSettlers
             /\ paused' = saved.paused
          \/ /\ character' = character
             /\ authSettlers' = authSettlers
             /\ paused' = paused
             /\ frame'.op \in {"none", frame.op}
     /\ frame'.op = "none" => ~locked']_vars


C25_DecisionSubmittedOnce ==
  [][\A b \in BattleIds, side \in 1..2 :
       /\ battle[b].exists
       /\ battle[b].wildcardActive
       /\ battle[b][SideField("Decision", side)] # -1
       /\ battle'[b].wildcardActive
       => battle'[b][SideField("Decision", side)] =
            battle[b][SideField("Decision", side)]]_vars


C28_BetsOnlyWhileActive ==
  [][/\ predictionGame.status # "active" =>
          predictionGame'.players = predictionGame.players
     /\ predictionGame'.players \ predictionGame.players # {} =>
          predictionGame.status = "active" /\ predictionGame'.status = "active"
     /\ predictionGame.status = "active" /\ predictionGame'.status # "active" =>
          predictionGame'.status = "inactive" /\ predictionGame'.players = {}]_vars

\* a second round is open with a bet recorded in it: the first round was
\* settled, its players were cleared, and the game went through inactive
C28_Witness ==
  /\ predictionGame.gameId = 1
  /\ predictionGame.status = "active"
  /\ predictionGame.players # {}
  /\ Len(predictionGame.currentRound.bets) = Cardinality(predictionGame.players)


\* C29: whenever a battle is finished, exactly one side has battle HP 0, and
\* the recorded winner is the other side, the one whose HP is above 0.
C29_ExactlyOneSideDown ==
  \A b \in BattleIds :
    battle[b].exists /\ battle[b].isFinished =>
      \/ /\ battle[b].player1Hp = 0 /\ battle[b].player2Hp > 0
         /\ battle[b].winner = 2
      \/ /\ battle[b].player2Hp = 0 /\ battle[b].player1Hp > 0
         /\ battle[b].winner = 1


\* C30: a finished battle is terminal. Once isFinished is true, no step
\* changes the battle's HP values, turn counter, whose-turn flag, winner,
\* status bitmasks or combo counters, and the battle stays finished with a
\* side at HP 0.
C30_FinishedBattleFrozen ==
  [][\A b \in BattleIds :
       battle[b].exists /\ battle[b].isFinished =>
         /\ battle'[b].isFinished
         /\ battle'[b].player1Hp = battle[b].player1Hp
         /\ battle'[b].player2Hp = battle[b].player2Hp
         /\ battle'[b].turnNumber = battle[b].turnNumber
         /\ battle'[b].currentTurn = battle[b].currentTurn
         /\ battle'[b].winner = battle[b].winner
         /\ battle'[b].player1StatusEffects = battle[b].player1StatusEffects
         /\ battle'[b].player2StatusEffects = battle[b].player2StatusEffects
         /\ battle'[b].player1ComboCount = battle[b].player1ComboCount
         /\ battle'[b].player2ComboCount = battle[b].player2ComboCount
         /\ (battle'[b].player1Hp = 0 \/ battle'[b].player2Hp = 0)]_vars

\* ------------------------------------------------- the pending wildcard

\* a wildcard is pending on battle b: it is active and a side has not decided
WildcardPending(b) ==
  /\ b.exists
  /\ b.wildcardActive
  /\ (b.wildcardPlayer1Decision = -1 \/ b.wildcardPlayer2Decision = -1)

\* C31: while a wildcard is pending on a battle (it is active and at least
\* one side has not decided), no accepted game_executeTurn call on that
\* battle changes either HP value, the turn number or the side on turn.
C31_PendingWildcardBlocksTurns ==
  [][\A b \in BattleIds :
       (/\ WildcardPending(battle[b])
        /\ lastTurn' # lastTurn
        /\ lastTurn'.battleId = b)
       => /\ battle'[b].player1Hp = battle[b].player1Hp
          /\ battle'[b].player2Hp = battle[b].player2Hp
          /\ battle'[b].turnNumber = battle[b].turnNumber
          /\ battle'[b].currentTurn = battle[b].currentTurn]_vars

\* ------------------------------------------------------------ stun strike

\* the step is a turn of battle b in which the given side used the skill of
\* its slot 1 (the only way a cooldown rises) and that skill is skillId
UsesSkill(b, side, skillId) ==
  /\ battle[b].exists
  /\ character[battle[b][IF side = 1 THEN "player1Char" ELSE "player2Char"]].skill1
       = skillId
  /\ battle'[b][CooldownField(side, 1)] > battle[b][CooldownField(side, 1)]

\* C32: after a turn in which a side uses SKILL_STUN_STRIKE on its foe, the
\* foe, whose turn is next, carries STATUS_STUN, so that its next turn takes
\* the stunned path.
C32_StunLastsUntilTargetsTurn ==
  [][\A b \in BattleIds, side \in {1, 2} :
       UsesSkill(b, side, SKILL_STUN_STRIKE)
       => /\ battle'[b].currentTurn = Foe(side)
          /\ HasStatus(battle'[b][SideField("Status", Foe(side))], STATUS_STUN)]_vars

\* ------------------------------------------------------------------- heal

\* C33: a turn in which a side uses SKILL_HEAL leaves that side's battle HP
\* at min(previous battle HP + floor(maxHp * 30 / 100), maxHp): damage
\* taken earlier in the battle is not otherwise undone.
C33_HealRestoresThirtyPercent ==
  [][\A b \in BattleIds, side \in {1, 2} :
       UsesSkill(b, side, SKILL_HEAL)
       => LET healer == character[battle[b][IF side = 1 THEN "player1Char"
                                            ELSE "player2Char"]]
              healAmount == (healer.maxHp * 30) \div 100
              before == battle[b][SideField("Hp", side)]
          IN battle'[b][SideField("Hp", side)] =
               IF before + healAmount > healer.maxHp THEN healer.maxHp
               ELSE before + healAmount]_vars

\* ------------------------------------------------- treasury and solvency

\* C34: the house-edge share of a settled pool is accrued to the treasury at
\* most once: the total that all claims on a pool have added to the treasury
\* counter never exceeds floor(totalPool * houseEdgeBps / 10000).
C34_HouseEdgeAccruedOnce ==
  \A p \in PoolIds :
    ledger.house[p] <= (IF spool[p].exists THEN HouseAmount(spool[p]) ELSE 0)

\* C35: prediction_settleSinglePool accepts only outcome 0 or 1, so a pool is
\* settled if and only if its winningOutcome is 0 or 1.
C35_SettledIffOutcomeAOrB ==
  \A p \in PoolIds :
    spool[p].exists => (spool[p].isSettled <=> spool[p].winningOutcome \in {0, 1})

\* C36: single-pool solvency. The tokens that claims on a pool have
\* transferred to bettors (base payouts plus streak-bonus transfers) never
\* exceed the tokens that placeSingleBet has pulled into that pool.
C36_PoolPaysNoMoreThanItTookIn ==
  \A p \in PoolIds :
    paidBase[p] + ledger.bonus[p] <= (IF spool[p].exists THEN spool[p].totalPool ELSE 0)

\* C37: parlay solvency. The payouts that claimMultibet has transferred for
\* the betslips of a multipool never sum to more than the total staked into
\* that multipool minus its house edge.
C37_MultipoolPaysNoMoreThanPayoutPool ==
  \A m \in MultipoolIds :
    ledger.multi[m] <=
      (IF mpool[m].exists
         THEN mpool[m].totalPool
                - ((mpool[m].totalPool * mpool[m].houseEdgeBps) \div BASIS_POINTS)
         ELSE 0)

\* C38: betslip ids are unique. Once a betslip is stored under an id, no
\* step (in particular no later prediction_placeMultibet with that id)
\* changes its bettor, multipool, stake, selections or weight.
C38_StoredBetslipKeepsItsTerms ==
  [][\A s \in BetslipIds :
       betslip[s].exists
       => /\ betslip'[s].exists
          /\ betslip'[s].bettor = betslip[s].bettor
          /\ betslip'[s].multipoolId = betslip[s].multipoolId
          /\ betslip'[s].amount = betslip[s].amount
          /\ betslip'[s].selections = betslip[s].selections
          /\ betslip'[s].weightFP = betslip[s].weightFP]_vars

\* -------------------------------------------------------- battle progress

\* C39: every created, unfinished battle can be played on while the
\* contract is not paused: some game_executeTurn call by the owner of the
\* side on turn is accepted, whatever two character ids the battle was
\* created with.
C39_SomeTurnIsAccepted ==
  \A b \in BattleIds :
    (battle[b].exists /\ ~battle[b].isFinished /\ ~paused /\ ~locked)
    => \E attackerCharId \in CharacterIds :
         TurnAccepted(battle[b][SideField("Owner", battle[b].currentTurn)],
                      b, attackerCharId)

\* a battle of a character against itself in which both sides have played
C39_Witness ==
  \E b \in BattleIds :
    /\ battle[b].exists
    /\ battle[b].player1Char = battle[b].player2Char
    /\ ~battle[b].isFinished
    /\ battle[b].turnNumber >= 2
    /\ lastTurn.battleId = b
    /\ lastTurn.side = 2

\* -------------------------------------------------------------- prop bets

\* new PropBet() as propbet_createProp fills it
PropBet(battleId) ==
  [exists |-> TRUE, battleId |-> battleId, yesPool |-> 0, noPool |-> 0,
   isResolved |-> FALSE, outcome |-> FALSE]

\* new PropTicket() as propbet_placeBet fills it
PropTicket(propId, bettor, amount, prediction) ==
  [exists |-> TRUE, propId |-> propId, bettor |-> bettor, amount |-> amount,
   prediction |-> prediction, isClaimed |-> FALSE]

\* IERC20(tokenAddr).balanceOf(holder)
BalanceOf(tokenAddr, holder) ==
  IF tokenAddr = Token THEN tokenBal[holder] ELSE altBal[holder]

propbet_createProp(caller, propId, battleId) ==
  /\ CallAllowed(caller)
  /\ whenNotPaused
  /\ nonReentrant
  /\ onlyRole(ADMIN_ROLE, caller)
  /\ ~prop[propId].exists
  /\ battle[battleId].exists
  /\ prop' = [prop EXCEPT ![propId] = PropBet(battleId)]
  /\ UNCHANGED <<now, predictionGame, storeVars, tokenVars, historyVars,
                 callVars, gameVars, propTicket, altBal, propLedger>>

\* propbet_placeBet. The transferFrom of the asset contract named by the
\* caller returns when the caller's balance (and, for Token, allowance)
\* covers the amount, and aborts the call otherwise; every holder of Alt has
\* approved the contract.
propbet_placeBet(caller, propId, amount, prediction, tokenAddr) ==
  LET p == prop[propId]
      ticketKey == <<propId, caller>>
  IN
  /\ CallAllowed(caller)
  /\ whenNotPaused
  /\ nonReentrant
  /\ p.exists
  /\ ~p.isResolved
  /\ amount > 0
  /\ ~propTicket[ticketKey].exists
  /\ BalanceOf(tokenAddr, caller) >= amount
  /\ IF tokenAddr = Token
       THEN /\ allowance[caller] >= amount
            /\ tokenBal' = TokenTransferFrom(tokenBal, caller, amount)
            /\ allowance' = [allowance EXCEPT ![caller] = @ - amount]
            /\ UNCHANGED altBal
       ELSE /\ altBal' = TokenTransferFrom(altBal, caller, amount)
            /\ UNCHANGED tokenVars
  /\ propTicket' = [propTicket EXCEPT ![ticketKey] =
                      PropTicket(propId, caller, amount, prediction)]
  /\ prop' = [prop EXCEPT ![propId] =
                IF prediction THEN [p EXCEPT !.yesPool = @ + amount]
                ELSE [p EXCEPT !.noPool = @ + amount]]
  /\ totalBetsPlaced' = totalBetsPlaced + 1
  /\ propLedger' = [propLedger EXCEPT !.staked[propId][tokenAddr] = @ + amount,
                                      !.stakedIn[ticketKey] = tokenAddr]
  /\ UNCHANGED <<now, predictionGame, locked, paused, roles, authSettlers,
                 spool, sbet, streak, treasuryBalance, totalBetsClaimed,
                 singlePoolCount, multipoolCount, mpool, betslip, historyVars,
                 callVars, gameVars>>

propbet_resolveProp(caller, propId, outcome) ==
  LET p == prop[propId] IN
  /\ CallAllowed(caller)
  /\ whenNotPaused
  /\ nonReentrant
  /\ onlyRole(SETTLER_ROLE, caller)
  /\ p.exists
  /\ ~p.isResolved
  /\ battle[p.battleId].exists
  /\ battle[p.battleId].isFinished
  /\ prop' = [prop EXCEPT ![propId] =
                [p EXCEPT !.isResolved = TRUE, !.outcome = outcome]]
  /\ UNCHANGED <<now, predictionGame, storeVars, tokenVars, historyVars,
                 callVars, gameVars, propTicket, altBal, propLedger>>

\* the payout of a winning ticket: its stake and its share of the loser pool
PropPayout(p, ticket) ==
  LET winnerPool == IF p.outcome THEN p.yesPool ELSE p.noPool
      loserPool == IF p.outcome THEN p.noPool ELSE p.yesPool
  IN IF winnerPool > 0
       THEN ticket.amount + (loserPool * ticket.amount) \div winnerPool
       ELSE ticket.amount

\* propbet_claimProp. The transfer of the asset contract named by the caller
\* returns when the contract's balance covers the payout (the assertion
\* before it makes sure of that).
propbet_claimProp(caller, propId, tokenAddr) ==
  LET p == prop[propId]
      ticketKey == <<propId, caller>>
      ticket == propTicket[ticketKey]
      payoutU64 == PropPayout(p, ticket)
  IN
  /\ CallAllowed(caller)
  /\ whenNotPaused
  /\ nonReentrant
  /\ ticket.exists
  /\ ~ticket.isClaimed
  /\ p.exists
  /\ p.isResolved
  /\ propTicket' = [propTicket EXCEPT ![ticketKey].isClaimed = TRUE]
  /\ totalBetsClaimed' = totalBetsClaimed + 1
  /\ IF ticket.prediction # p.outcome
       THEN UNCHANGED <<tokenVars, altBal, propLedger>>
       ELSE /\ BalanceOf(tokenAddr, Callee) >= payoutU64
            /\ IF tokenAddr = Token
                 THEN /\ tokenBal' = TokenTransfer(tokenBal, caller, payoutU64)
                      /\ UNCHANGED <<allowance, altBal>>
                 ELSE /\ altBal' = TokenTransfer(altBal, caller, payoutU64)
                      /\ UNCHANGED tokenVars
            /\ propLedger' = [propLedger EXCEPT
                                !.paid[propId][tokenAddr] = @ + payoutU64,
                                !.paidIn[ticketKey] = tokenAddr]
  /\ UNCHANGED <<now, predictionGame, locked, paused, roles, authSettlers,
                 spool, sbet, streak, treasuryBalance, totalBetsPlaced,
                 singlePoolCount, multipoolCount, mpool, betslip, historyVars,
                 callVars, gameVars, prop>>

\* Prop bets on a battle between two veterans. No entry point writes a role
\* key other than the admin's, so a settler exists only when its key
\* 'settler:<addr>' was written into the datastore at deployment; here the
\* oracle holds it.
InitProp ==
  /\ InitStore
  /\ roles = {<<ADMIN_ROLE, Deployer>>, <<SETTLER_ROLE, Oracle>>}
  /\ streak = [a \in Addresses |-> 0]
  /\ character = [c \in CharacterIds |->
                    Veteran(IF c = "c1" THEN "a" ELSE "b")]
  /\ characterCount = 2

NextProp ==
  \/ \E battleId \in BattleIds :
       game_createBattle("a", battleId, "c1", "c2")
  \/ \E caller \in Players, battleId \in BattleIds,
        attackerCharId \in CharacterIds, rnd \in CriticalRolls :
       /\ battle[battleId].exists
       /\ battle[battleId].turnNumber < MaxTurns
       /\ game_executeTurn(caller, battleId, attackerCharId, 0, 50, 0, rnd)
  \/ \E propId \in PropIds, battleId \in BattleIds :
       propbet_createProp(Deployer, propId, battleId)
  \/ \E caller \in Bettors, propId \in PropIds, amount \in PropAmounts,
        prediction \in BOOLEAN, tokenAddr \in PropTokens :
       propbet_placeBet(caller, propId, amount, prediction, tokenAddr)
  \/ \E propId \in PropIds, outcome \in BOOLEAN :
       propbet_resolveProp(Oracle, propId, outcome)
  \/ \E caller \in Bettors, propId \in PropIds, tokenAddr \in PropTokens :
       propbet_claimProp(caller, propId, tokenAddr)

SpecProp == InitProp /\ [][NextProp]_vars

====
